---- MODULE Spec2Model ----
(***************************************************************************)
(* Package memfs of ncruces/go-fs: an in-memory file store with implicit   *)
(* directories, optional gzip storage and HTTP serving.                    *)
(*                                                                         *)
(* The sources hold three revisions of the package, and the model carries  *)
(* the revision as the variable rev, fixed when the store is constructed:  *)
(*   "part_002"  src/unnamed/part_002: http.FileSystem, rooted names       *)
(*   "memfs.go"  src/memfs/memfs.go: fs.FS names, the older put and serve  *)
(*   "part_001"  src/unnamed/part_001 with src/unnamed/part_000 (http.go)  *)
(*                                                                         *)
(* A path string is a sequence of tokens: the token "/" and name elements  *)
(* ("a", "c.txt", ".", ".."), which hold no slash and are not empty.  A    *)
(* byte string is a sequence of slices of named blobs, see Bytes below.    *)
(***************************************************************************)
EXTENDS Integers, Sequences, FiniteSets, TLC

VARIABLES
    rev,    \* the revision of the package this store runs
    objs,   \* FileSystem.objs: path -> object
    dirs,   \* FileSystem.dirs: path -> list of child paths
    calls,  \* how many insert calls (Create, CreateCompressed, CreateString) were made
    last,   \* the last insert call and what it returned
    given,  \* path -> the content the last successful insert at the path was given
    h,      \* the file handle in use
    trace,  \* what the handle was opened on and what it delivered since the last Seek
    g,      \* a second file handle, of the runs with two handles
    gtrace, \* the same as trace for the second handle
    ret,    \* the last operation on the handle or ReadFile, and what it returned
    asked,  \* the last request served
    resp,   \* the response to it
    gen     \* the generator: its walker goroutine, its template, their channels

store == <<objs, dirs>>

Revs == {"part_002", "memfs.go", "part_001"}

\* ------------------------------------------------------------------ bounds

\* insert calls in one run of the index
MaxPuts == 3

\* insert calls in one run of the create calls with their failures
MaxCreates == 2

\* insert calls in one run of the handles
MaxReaderPuts == 2

\* insert calls in one run of the requests
MaxServePuts == 2
MaxTreePuts == 2
MaxPairPuts == 2
MaxStreamPuts == 1

\* the plain bytes the gzip reader decompresses at a time
GzipChunk == 320

\* ------------------------------------------------------------------ paths

Slash == "/"

\* index of the last "/" of a path, 0 when it has none (path.lastSlash)
lastSlash(name) ==
    LET S == {i \in 1..Len(name) : name[i] = Slash}
    IN IF S = {} THEN 0 ELSE CHOOSE i \in S : \A j \in S : j <= i

\* path.Split: the directory with its trailing slash, and the file
SplitDir(name) == SubSeq(name, 1, lastSlash(name))
SplitFile(name) == SubSeq(name, lastSlash(name) + 1, Len(name))

\* strings.HasPrefix(name, "/") and strings.HasSuffix(name, "/")
HasSlashPrefix(name) == Len(name) > 0 /\ name[1] = Slash
HasSlashSuffix(name) == Len(name) > 0 /\ name[Len(name)] = Slash

\* io/fs.ValidPath: "." or slash-separated elements, none of them empty, "." or ".."
ValidPath(name) ==
    \/ name = <<".">>
    \/ /\ Len(name) % 2 = 1
       /\ \A i \in 1..Len(name) :
            IF i % 2 = 1 THEN name[i] \notin {Slash, ".", ".."} ELSE name[i] = Slash

\* the test Create and CreateCompressed make on the shape of a name
ValidName(r, name) ==
    IF r = "part_002"
    THEN HasSlashPrefix(name) /\ ~HasSlashSuffix(name)
    ELSE ValidPath(name)

\* the key of the root directory that Create() registers
RootDir(r) == IF r = "part_002" THEN <<Slash>> ELSE <<".">>

\* ------------------------------------------------------------------ bytes

(* A byte string is a sequence of slices.  The slice [gz, id, lo, hi] is the
   bytes lo .. hi-1 of a blob: of the source file id when gz = 0, and of a gzip
   container of gz bytes that holds the source file id when gz > 0 (gz is the
   length the compressor produced).  Adjacent slices of one blob are merged,
   so two byte strings are equal exactly when they are the same sequence. *)

\* the source files: their lengths, and their CRC-32 checksums (Castagnoli as
\* Create computes it, IEEE as the gzip trailer holds it).  The checksum of no
\* bytes is 0 under both polynomials; the other values stand for the 32-bit
\* checksums, of which the code uses only equality, zero or not, and the digits.
SrcLen == [empty |-> 0, hello |-> 5, small |-> 1023, edge |-> 1024, page |-> 1280]
Castagnoli == [empty |-> 0, hello |-> 1201, small |-> 1202, edge |-> 1203, page |-> 1204]
IEEE == [empty |-> 0, hello |-> 2401, small |-> 2402, edge |-> 2403, page |-> 2404]

Slice(gz, id, lo, hi) == [gz |-> gz, id |-> id, lo |-> lo, hi |-> hi]

\* the whole source file id, and a whole gzip container of clen bytes holding it
Whole(id) == IF SrcLen[id] = 0 THEN <<>> ELSE <<Slice(0, id, 0, SrcLen[id])>>
Container(id, clen) == <<Slice(clen, id, 0, clen)>>

RECURSIVE BLen(_)
BLen(bs) == IF bs = <<>> THEN 0 ELSE (bs[1].hi - bs[1].lo) + BLen(Tail(bs))

\* a ++ b
Cat(a, b) ==
    IF a = <<>> THEN b
    ELSE IF b = <<>> THEN a
    ELSE LET x == a[Len(a)]
             y == b[1]
         IN IF x.gz = y.gz /\ x.id = y.id /\ x.hi = y.lo
            THEN SubSeq(a, 1, Len(a) - 1) \o <<[x EXCEPT !.hi = y.hi]>> \o Tail(b)
            ELSE a \o b

\* bs[k:], for 0 <= k
RECURSIVE Drop(_, _)
Drop(bs, k) ==
    IF bs = <<>> \/ k <= 0 THEN bs
    ELSE LET n == bs[1].hi - bs[1].lo
         IN IF k >= n THEN Drop(Tail(bs), k - n)
            ELSE <<[bs[1] EXCEPT !.lo = @ + k]>> \o Tail(bs)

\* bs[:k], for 0 <= k
RECURSIVE Take(_, _)
Take(bs, k) ==
    IF bs = <<>> \/ k <= 0 THEN <<>>
    ELSE LET n == bs[1].hi - bs[1].lo
         IN IF k >= n THEN <<bs[1]>> \o Take(Tail(bs), k - n)
            ELSE <<[bs[1] EXCEPT !.hi = bs[1].lo + k]>>

\* whether bs is one whole gzip container, which is what gzip.NewReader accepts
IsContainer(bs) == Len(bs) = 1 /\ bs[1].gz > 0 /\ bs[1].lo = 0 /\ bs[1].hi = bs[1].gz

\* a reader that hands out the container as it is stored
GunzipStored(bs) == bs

\* what a gzip container decompresses to
Gunzip(bs) == Whole(bs[1].id)

\* ------------------------------------------------------------------ objects

\* gzip.NoCompression, and the size below which CreateCompressed stores raw
NoCompression == 0
MinCompressSize == 1024

\* type object
Object(data, size, time, mime, hash) ==
    [name |-> <<>>, data |-> data, size |-> size, time |-> time, mime |-> mime, hash |-> hash]

\* path.Ext of a name: the extension of its last element
Ext(name) ==
    LET file == SplitFile(name)
    IN IF file = <<>> THEN ""
       ELSE IF file[1] \in {"index.html", "404.html"} THEN ".html"
       ELSE IF file[1] \in {"c.txt", "big.txt"} THEN ".txt"
       ELSE ""

\* mime.TypeByExtension with the built-in table, and http.DetectContentType,
\* which finds text in every source file of the model
TypeByExtension(ext) == IF ext = ".html" THEN "text/html; charset=utf-8" ELSE ""
DetectContentType(id) == "text/plain; charset=utf-8"

\* fsys.dirs[dir]: the list of a missing key is nil
DirList(ds, dir) == IF dir \in DOMAIN ds THEN ds[dir] ELSE <<>>

\* hasFile with the check of the first entry in the ordered mode
hasFileFirstOnly(list, name, ordered) ==
    IF ordered
    THEN Len(list) > 0 /\ list[1] = name
    ELSE \E i \in 1..Len(list) : list[i] = name

\* hasFile with the check of the last entry taken in both modes
hasFileLastOnly(list, name, ordered) == Len(list) > 0 /\ list[Len(list)] = name

\* put.hasFile
hasFile(list, name, ordered) ==
    IF ordered
    THEN Len(list) > 0 /\ list[Len(list)] = name
    ELSE \E i \in 1..Len(list) : list[i] = name

\* fsys.dirs[dir] = append(d, file)
appendChild(ds, dir, file) ==
    [d \in DOMAIN ds \cup {dir} |-> IF d = dir THEN Append(DirList(ds, dir), file) ELSE ds[d]]

\* put.addFile of memfs.go and part_002: TRUE when it added the file
addFile(ds, dir, file, ordered) == ~hasFile(DirList(ds, dir), file, ordered)

\* put.addFile of part_001: TRUE when the directory exists and lists the name
addFile1(ds, dir, name, ordered) == dir \in DOMAIN ds /\ hasFile(ds[dir], name, ordered)

\* the loop of put in memfs.go and part_002, and its last addFile(dir, name)
RECURSIVE walk(_, _, _, _)
walk(ds, dir, name, ordered) ==
    IF Len(dir) > 1
    THEN LET d == SubSeq(dir, 1, Len(dir) - 1)
         IN IF addFile(ds, d, name, ordered)
            THEN walk(appendChild(ds, d, name), SplitDir(d), d, ordered)
            ELSE ds
    ELSE IF addFile(ds, dir, name, ordered) THEN appendChild(ds, dir, name) ELSE ds

\* the loop of put in part_001, and its last addFile(".", name)
RECURSIVE walk1(_, _, _, _)
walk1(ds, dir, name, ordered) ==
    IF Len(dir) > 0
    THEN LET d == SubSeq(dir, 1, Len(dir) - 1)
         IN IF addFile1(ds, d, name, ordered)
            THEN ds
            ELSE walk1(appendChild(ds, d, name), SplitDir(d), d, ordered)
    ELSE IF addFile1(ds, <<".">>, name, ordered) THEN ds ELSE appendChild(ds, <<".">>, name)

\* FileSystem.put: the store after it
put(r, os, ds, name, obj, ordered) ==
    [objs |-> (name :> [obj EXCEPT !.name = SplitFile(name)]) @@ os,
     dirs |-> IF r = "part_001"
              THEN walk1(ds, SplitDir(name), name, ordered)
              ELSE walk(ds, SplitDir(name), name, ordered),
     err  |-> "nil"]

\* a call that returns err and leaves the store as it is
Fails(os, ds, err) == [objs |-> os, dirs |-> ds, err |-> err]

\* ------------------------------------------------------------------ inserts

(* The content handed to Create is a stream over the source file src.id.  Its
   reads fail when src.fail = "read", its seeks when src.fail = "seek" (part_001
   takes an io.Reader and never seeks). *)

\* getType of memfs.go and part_002: sniffs, then seeks back, only when neither
\* the argument nor the extension gives a type
getType(name, mimetype, src) ==
    IF mimetype = "" /\ TypeByExtension(Ext(name)) = ""
    THEN IF src.fail = "seek"
         THEN [mime |-> "", err |-> "seek"]
         ELSE [mime |-> DetectContentType(src.id), err |-> "nil"]
    ELSE [mime |-> mimetype, err |-> "nil"]

\* getType of part_001
getType1(mimetype, name, id) ==
    LET byExt == IF mimetype = "" THEN TypeByExtension(Ext(name)) ELSE mimetype
    IN IF byExt = "" THEN DetectContentType(id) ELSE byExt

\* getSize: seeks to the end and back
getSize(src) ==
    IF src.fail = "seek" THEN [n |-> 0, err |-> "seek"] ELSE [n |-> SrcLen[src.id], err |-> "nil"]

\* getHash: the CRC-32 of the trailer of a gzip container whose size field is isize
\* (every size of the model is below 2^32, where uint32(isize) = isize)
getHash(data, isize) ==
    IF BLen(data) > 10 + 8 /\ IsContainer(data) /\ SrcLen[data[1].id] = isize
    THEN IEEE[data[1].id]
    ELSE 0

\* the directory test left out
isDirectoryNever(ds, name) == FALSE

\* _, ok := fsys.dirs[name]
isDirectory(ds, name) == name \in DOMAIN ds

\* FileSystem.Create
Create(r, os, ds, name, mimetype, modtime, src) ==
    IF ~ValidName(r, name) THEN Fails(os, ds, "ErrInvalid")
    ELSE IF isDirectory(ds, name) THEN Fails(os, ds, "ErrExist")
    ELSE IF r = "part_001"
    THEN IF src.fail = "read" THEN Fails(os, ds, "read")
         ELSE put(r, os, ds, name,
                  Object(Whole(src.id), SrcLen[src.id], modtime,
                         getType1(mimetype, name, src.id), Castagnoli[src.id]),
                  FALSE)
    ELSE LET ty == getType(name, mimetype, src)
             sz == getSize(src)
         IN IF ty.err # "nil" THEN Fails(os, ds, ty.err)
            ELSE IF sz.err # "nil" THEN Fails(os, ds, sz.err)
            ELSE IF src.fail = "read" THEN Fails(os, ds, "read")
            ELSE put(r, os, ds, name,
                     Object(Whole(src.id), SrcLen[src.id], modtime, ty.mime,
                            Castagnoli[src.id]),
                     FALSE)

\* gzip.NewWriterLevel accepts HuffmanOnly (-2) to BestCompression (9)
ValidLevel(level) == level >= -2 /\ level <= 9

\* the test with its two factors exchanged
KeepsSwapped(n, clen) == 5 * n >= 4 * clen

\* every result of the compressor kept
KeepsAlways(n, clen) == TRUE

\* the test that keeps a compressed result of clen bytes for n bytes of content
Keeps(n, clen) == 4 * n >= 5 * clen

\* what stands for the compressor's output length when io.Copy into the
\* compressor or its Close returns an error
ZipError == -1

\* a CreateCompressed that compresses whatever the level and the size are
CreateCompressedUnchecked(r, os, ds, name, mimetype, modtime, src, level, clen) ==
    IF ~ValidName(r, name) \/ isDirectory(ds, name) \/ src.fail # "none"
    THEN Create(r, os, ds, name, mimetype, modtime, src)
    ELSE put(r, os, ds, name,
             Object(Container(src.id, clen), SrcLen[src.id], modtime,
                    getType1(mimetype, name, src.id),
                    getHash(Container(src.id, clen), SrcLen[src.id])),
             FALSE)

\* FileSystem.CreateCompressed; clen is the length the compressor produces, or
\* ZipError.  After an error of the compressor the code goes on to store the
\* content with Create, as it does for a result that is not kept.
CreateCompressed(r, os, ds, name, mimetype, modtime, src, level, clen) ==
    IF level = NoCompression THEN Create(r, os, ds, name, mimetype, modtime, src)
    ELSE IF ~ValidName(r, name) THEN Fails(os, ds, "ErrInvalid")
    ELSE IF isDirectory(ds, name) THEN Fails(os, ds, "ErrExist")
    ELSE IF r = "part_001"
    THEN IF src.fail = "read" THEN Fails(os, ds, "read")
         ELSE IF SrcLen[src.id] >= MinCompressSize /\ ~ValidLevel(level)
         THEN Fails(os, ds, "gzip: invalid compression level")
         ELSE IF SrcLen[src.id] >= MinCompressSize /\ clen # ZipError
                 /\ Keeps(SrcLen[src.id], clen)
         THEN put(r, os, ds, name,
                  Object(Container(src.id, clen), SrcLen[src.id], modtime,
                         getType1(mimetype, name, src.id),
                         getHash(Container(src.id, clen), SrcLen[src.id])),
                  FALSE)
         ELSE Create(r, os, ds, name, mimetype, modtime, [src EXCEPT !.fail = "none"])
    ELSE LET ty == getType(name, mimetype, src)
             sz == getSize(src)
         IN IF ty.err # "nil" THEN Fails(os, ds, ty.err)
            ELSE IF sz.err # "nil" THEN Fails(os, ds, sz.err)
            ELSE IF sz.n < MinCompressSize
            THEN Create(r, os, ds, name, ty.mime, modtime, src)
            ELSE IF ~ValidLevel(level)
            THEN Fails(os, ds, "gzip: invalid compression level")
            ELSE IF src.fail # "read" /\ clen # ZipError /\ Keeps(SrcLen[src.id], clen)
            THEN put(r, os, ds, name,
                     Object(Container(src.id, clen), SrcLen[src.id], modtime, ty.mime,
                            getHash(Container(src.id, clen), SrcLen[src.id])),
                     FALSE)
            ELSE Create(r, os, ds, name, ty.mime, modtime, src)

\* FileSystem.CreateString
CreateString(r, os, ds, name, mimetype, modtime, hash, size, content) ==
    put(r, os, ds, name, Object(content, size, modtime, mimetype, hash), TRUE)

\* ------------------------------------------------------------------ handles

Min(a, b) == IF a < b THEN a ELSE b

\* whence of Seek; any other value is invalid
SeekStart == 0
SeekCurrent == 1
SeekEnd == 2

\* a handle: kind "file" is *file of memfs.go and part_002, "raw" and "zfile"
\* are file and *zfile of part_001, "dir" is *dir, "none" is no handle at all.
\* reader is <<>> for a nil reader, or <<bytes>>: a reader with these bytes
\* still to deliver.  For "raw", pos is the index of its strings.Reader.
Handle(kind, o, list) == [kind |-> kind, object |-> o, pos |-> 0, reader |-> <<>>, list |-> list]

NoObject == Object(<<>>, 0, 0, "", 0)
NoHandle == Handle("none", NoObject, <<>>)

\* what a handle operation returns: the handle after it, the count or the
\* offset, the error, and the bytes put into the buffer
Ret(f, n, err, bytes) == [h |-> f, n |-> n, err |-> err, bytes |-> bytes]

\* an Open whose handle starts where the first handle stands, with its reader
OpenShared(r, os, ds, name) ==
    IF name \in DOMAIN os
    THEN Ret([Handle(IF r # "part_001" THEN "file"
                     ELSE IF BLen(os[name].data) = os[name].size THEN "raw" ELSE "zfile",
                     os[name], <<>>) EXCEPT !.pos = h.pos, !.reader = h.reader],
             0, "nil", <<>>)
    ELSE Ret(NoHandle, 0, "ErrNotExist", <<>>)

\* FileSystem.Open
Open(r, os, ds, name) ==
    IF name \in DOMAIN os
    THEN LET o == os[name]
         IN IF r # "part_001" THEN Ret(Handle("file", o, <<>>), 0, "nil", <<>>)
            ELSE IF BLen(o.data) = o.size THEN Ret(Handle("raw", o, <<>>), 0, "nil", <<>>)
            ELSE Ret(Handle("zfile", o, <<>>), 0, "nil", <<>>)
    ELSE IF name \in DOMAIN ds
    THEN Ret(Handle("dir", [NoObject EXCEPT !.name = name], ds[name]), 0, "nil", <<>>)
    ELSE Ret(NoHandle, 0, "ErrNotExist", <<>>)

\* a strings.Reader that never reports the end
StringsReadsNoEnd(avail, l) == {<<Min(avail, l), "nil">>}

\* strings.Reader.Read into a buffer of l bytes, avail bytes left: <<n, err>>
StringsReads(avail, l) ==
    IF avail = 0 THEN {<<0, "EOF">>} ELSE {<<Min(avail, l), "nil">>}

\* gzip.Reader.Read at offset pos of the plain stream: it may deliver fewer
\* bytes than the buffer takes (here: stop where a chunk of the decompressor
\* ends), and it may report the end together with the last bytes or on the
\* call after them
GzipReads(avail, l, pos) ==
    IF avail = 0 THEN {<<0, "EOF">>}
    ELSE LET m == Min(avail, l)
         IN {<<m, "nil">>, <<Min(m, GzipChunk - (pos % GzipChunk)), "nil">>}
            \cup (IF m = avail THEN {<<m, "EOF">>} ELSE {})

\* the handle stores its object as it was given
IsRaw(f) == BLen(f.object.data) = f.object.size

\* file.Read and zfile.Read up to the call of f.reader.Read: what the reader
\* of the handle has left to deliver.  A nil reader is made anew, and a gzip
\* reader skips the first f.pos bytes (io.CopyN to Discard).
Left(f) ==
    IF f.reader # <<>> THEN f.reader[1]
    ELSE IF f.kind = "file" /\ IsRaw(f) THEN Drop(f.object.data, f.pos)
    ELSE Drop(Gunzip(f.object.data), f.pos)

\* the error of making the reader anew: a bad gzip header, or a stream that
\* ends before f.pos
LeftErr(f) ==
    IF f.reader # <<>> \/ (f.kind = "file" /\ IsRaw(f)) THEN "nil"
    ELSE IF ~IsContainer(f.object.data) THEN "gzip.ErrHeader"
    ELSE IF f.pos > BLen(Gunzip(f.object.data)) THEN "EOF"
    ELSE "nil"

\* strings.Reader.Len: the bytes of the unread part
RawLen(f) ==
    IF f.pos >= BLen(f.object.data) THEN 0 ELSE BLen(f.object.data) - f.pos

\* the outcomes <<n, err>> of the reader's Read that a Read of l bytes can meet
ReadOutcomes(f, l) ==
    IF f.kind = "raw" THEN StringsReads(RawLen(f), l)
    ELSE IF f.kind \in {"file", "zfile"} /\ f.pos >= 0 /\ f.pos < f.object.size
            /\ LeftErr(f) = "nil"
    THEN IF f.kind = "file" /\ IsRaw(f) THEN StringsReads(BLen(Left(f)), l)
         ELSE GzipReads(BLen(Left(f)), l, f.pos)
    ELSE {<<0, "nil">>}

\* file.Read of memfs.go and part_002, zfile.Read of part_001; oc is the
\* outcome of f.reader.Read
fileRead(f, l, oc) ==
    IF f.pos < 0 THEN Ret(f, 0, "ErrClosed", <<>>)
    ELSE IF f.pos >= f.object.size THEN Ret(f, 0, "EOF", <<>>)
    ELSE IF LeftErr(f) = "gzip.ErrHeader" THEN Ret(f, 0, "gzip.ErrHeader", <<>>)
    ELSE IF LeftErr(f) # "nil"
    THEN IF f.kind = "zfile" THEN Ret(f, 0, LeftErr(f), <<>>)
         ELSE LET n == BLen(Gunzip(f.object.data))
              IN Ret([f EXCEPT !.pos = n, !.reader = <<<<>>>>], n, LeftErr(f), <<>>)
    ELSE Ret([f EXCEPT !.reader = <<Drop(Left(f), oc[1])>>, !.pos = f.pos + oc[1]],
             oc[1], oc[2], Take(Left(f), oc[1]))

\* strings.Reader.Read of the file of part_001
rawRead(f, l, oc) ==
    Ret([f EXCEPT !.pos = f.pos + oc[1]], oc[1], oc[2],
        IF oc[1] = 0 THEN <<>> ELSE Take(Drop(f.object.data, f.pos), oc[1]))

\* dir.Read
dirRead(r, d) ==
    IF r = "part_001" THEN Ret(d, 0, "ErrInvalid", <<>>)
    ELSE IF d.pos < 0 THEN Ret(d, 0, "ErrClosed", <<>>)
    ELSE Ret(d, 0, "EOF", <<>>)

Read(r, f, l, oc) ==
    IF f.kind = "dir" THEN dirRead(r, f)
    ELSE IF f.kind = "raw" THEN rawRead(f, l, oc)
    ELSE fileRead(f, l, oc)

\* a Seek that takes an offset beyond the declared size for not valid
SeekToWithin(pos, size, offset, whence) ==
    LET npos == IF whence = 0 THEN offset
                ELSE IF whence = 1 THEN pos + offset
                ELSE IF whence = 2 THEN size + offset
                ELSE -1
    IN IF npos > size THEN -1 ELSE npos

\* the offset a Seek asks for; -1 stands for a whence that is not valid
SeekTo(pos, size, offset, whence) ==
    IF whence = SeekStart THEN offset
    ELSE IF whence = SeekCurrent THEN pos + offset
    ELSE IF whence = SeekEnd THEN size + offset
    ELSE -1

\* a Seek that keeps the reader it has
fileSeekKeepsReader(f, offset, whence) ==
    IF f.pos < 0 THEN Ret(f, 0, "ErrClosed", <<>>)
    ELSE IF whence \notin {SeekStart, SeekCurrent, SeekEnd} THEN Ret(f, 0, "ErrInvalid", <<>>)
    ELSE LET npos == SeekTo(f.pos, f.object.size, offset, whence)
         IN IF npos < 0 THEN Ret(f, 0, "ErrInvalid", <<>>)
            ELSE Ret([f EXCEPT !.pos = npos], npos, "nil", <<>>)

\* file.Seek of memfs.go and part_002, zfile.Seek of part_001
fileSeek(f, offset, whence) ==
    IF f.pos < 0 THEN Ret(f, 0, "ErrClosed", <<>>)
    ELSE IF whence \notin {SeekStart, SeekCurrent, SeekEnd} THEN Ret(f, 0, "ErrInvalid", <<>>)
    ELSE LET npos == SeekTo(f.pos, f.object.size, offset, whence)
         IN IF npos < 0 THEN Ret(f, 0, "ErrInvalid", <<>>)
            ELSE Ret([f EXCEPT !.pos = npos, !.reader = <<>>], npos, "nil", <<>>)

\* strings.Reader.Seek of the file of part_001
rawSeek(f, offset, whence) ==
    IF whence \notin {SeekStart, SeekCurrent, SeekEnd}
    THEN Ret(f, 0, "strings.Reader.Seek: invalid whence", <<>>)
    ELSE LET abs == SeekTo(f.pos, BLen(f.object.data), offset, whence)
         IN IF abs < 0 THEN Ret(f, 0, "strings.Reader.Seek: negative position", <<>>)
            ELSE Ret([f EXCEPT !.pos = abs], abs, "nil", <<>>)

\* dir.Seek
dirSeek(d) == Ret(d, 0, "ErrInvalid", <<>>)

Seek(f, offset, whence) ==
    IF f.kind = "dir" THEN dirSeek(f)
    ELSE IF f.kind = "raw" THEN rawSeek(f, offset, whence)
    ELSE fileSeek(f, offset, whence)

\* file.Close, zfile.Close, dir.Close: the handle is marked by pos = -1; the
\* Close of a gzip reader or of a NopCloser returns nil
fileClose(f) ==
    Ret([f EXCEPT !.pos = -1, !.reader = IF f.kind = "zfile" THEN <<>> ELSE f.reader],
        0, "nil", <<>>)

\* Close of the file of part_001
rawClose(f) == Ret(f, 0, "nil", <<>>)

\* object.Size: the declared size
objectSize(o) == o.size

\* Size of the FileInfo that Stat on a file handle returns, the handle itself:
\* a *file and a *zfile have the Size of their object; the file of part_001
\* has its own Size, the Len of its strings.Reader: the bytes not yet read
fileStatSize(f) ==
    IF f.kind = "raw"
    THEN IF f.pos >= BLen(f.object.data) THEN 0 ELSE BLen(f.object.data) - f.pos
    ELSE objectSize(f.object)

Close(f) == IF f.kind = "raw" THEN rawClose(f) ELSE fileClose(f)

\* FileSystem.ReadFile of part_001
ReadFile(os, ds, name) ==
    IF name \in DOMAIN os
    THEN LET o == os[name]
         IN IF BLen(o.data) = o.size THEN Ret(NoHandle, BLen(o.data), "nil", o.data)
            ELSE IF ~IsContainer(o.data) THEN Ret(NoHandle, 0, "gzip.ErrHeader", <<>>)
            ELSE Ret(NoHandle, BLen(Gunzip(o.data)), "nil", Gunzip(o.data))
    ELSE IF name \in DOMAIN ds THEN Ret(NoHandle, 0, "ErrInvalid", <<>>)
    ELSE Ret(NoHandle, 0, "ErrNotExist", <<>>)

\* ------------------------------------------------------------------ requests and responses

\* the elements of a path: its tokens without the slashes
IsElem(t) == t # Slash
Elems(p) == SelectSeq(p, IsElem)

\* the elements joined by slashes
RECURSIVE Join(_)
Join(es) ==
    IF Len(es) <= 1 THEN es ELSE <<es[1], Slash>> \o Join(Tail(es))

\* path.Clean, element by element: "." is dropped, ".." takes the element
\* before it away, and stays only at the start of a path that is not rooted
RECURSIVE CleanElems(_, _, _)
CleanElems(es, out, rooted) ==
    IF es = <<>> THEN out
    ELSE IF es[1] = "." THEN CleanElems(Tail(es), out, rooted)
    ELSE IF es[1] = ".."
    THEN IF out # <<>> /\ out[Len(out)] # ".."
         THEN CleanElems(Tail(es), SubSeq(out, 1, Len(out) - 1), rooted)
         ELSE IF rooted THEN CleanElems(Tail(es), out, rooted)
         ELSE CleanElems(Tail(es), Append(out, ".."), rooted)
    ELSE CleanElems(Tail(es), Append(out, es[1]), rooted)

\* path.Clean
Clean(p) ==
    LET rooted == HasSlashPrefix(p)
        es == CleanElems(Elems(p), <<>>, rooted)
    IN IF rooted THEN <<Slash>> \o Join(es)
       ELSE IF es = <<>> THEN <<".">>
       ELSE Join(es)

\* path.Base
Base(p) ==
    IF p = <<>> THEN <<".">>
    ELSE IF Elems(p) = <<>> THEN <<Slash>>
    ELSE <<Elems(p)[Len(Elems(p))]>>

\* strings.TrimSuffix(name, "/")
TrimSlashSuffix(name) ==
    IF HasSlashSuffix(name) THEN SubSeq(name, 1, Len(name) - 1) ELSE name

\* int(^uint(0) >> 1), the count ReadDir takes for "all entries"
MaxInt == 2147483647

\* FileSystem.stat: the entry of name (an object reports the file part of its
\* path, a directory the base of its path), or the error
stat(os, ds, name) ==
    IF name \in DOMAIN os THEN [err |-> "nil", name |-> os[name].name, isDir |-> FALSE]
    ELSE IF name \in DOMAIN ds THEN [err |-> "nil", name |-> Base(name), isDir |-> TRUE]
    ELSE [err |-> "ErrNotExist", name |-> <<>>, isDir |-> FALSE]

\* the loop of dir.ReadDir: it stops at the first entry stat does not find
RECURSIVE readDirLoop(_, _, _, _, _)
readDirLoop(os, ds, d, count, entries) ==
    IF d.pos < Len(d.list) /\ count > 0
    THEN LET s == stat(os, ds, d.list[d.pos + 1])
         IN IF s.err # "nil" THEN Ret(d, Len(entries), s.err, entries)
            ELSE readDirLoop(os, ds, [d EXCEPT !.pos = @ + 1], count - 1, Append(entries, s))
    ELSE Ret(d, Len(entries), "nil", entries)

\* a ReadDir that starts at the first entry in every call
ReadDirRewinds(os, ds, d, count) ==
    IF d.pos < 0 THEN Ret(d, 0, "ErrClosed", <<>>)
    ELSE readDirLoop(os, ds, [d EXCEPT !.pos = 0], IF count <= 0 THEN MaxInt ELSE count, <<>>)

\* dir.ReadDir: the entries are returned in the place of the bytes
ReadDir(os, ds, d, count) ==
    IF d.pos < 0 THEN Ret(d, 0, "ErrClosed", <<>>)
    ELSE IF count > 0 /\ d.pos >= Len(d.list) THEN Ret(d, 0, "EOF", <<>>)
    ELSE readDirLoop(os, ds, d, IF count <= 0 THEN MaxInt ELSE count, <<>>)

IndexPage == <<Slash, "index.html">>

\* strings.HasSuffix(p, "/index.html")
HasIndexSuffix(p) == Len(p) >= 2 /\ SubSeq(p, Len(p) - 1, Len(p)) = IndexPage

\* a request: its method, its URL path, and whether its Accept-Encoding
\* header holds the token gzip.  Requests carry no conditional header and no
\* Range header.
Request(method, urlpath, gzip) == [method |-> method, path |-> urlpath, gzip |-> gzip]

\* a response: status 0 says that no header was written.  body is the bytes
\* of an object, text is a body that the library makes up.
NoResp ==
    [status |-> 0, body |-> <<>>, text |-> "", location |-> <<>>, ctype |-> "",
     etag |-> <<>>, encoding |-> "", vary |-> "", length |-> -1]

StatusOK == 200
StatusMovedPermanently == 301
StatusNotFound == 404

\* strconv.FormatUint(n, 36): the digits of n, the first one first
Digits36 ==
    <<"0", "1", "2", "3", "4", "5", "6", "7", "8", "9", "a", "b", "c", "d", "e", "f", "g", "h",
      "i", "j", "k", "l", "m", "n", "o", "p", "q", "r", "s", "t", "u", "v", "w", "x", "y", "z">>
RECURSIVE FormatUint36(_)
FormatUint36(n) ==
    IF n < 36 THEN <<Digits36[n + 1]>>
    ELSE Append(FormatUint36(n \div 36), Digits36[(n % 36) + 1])

\* the two forms of an ETag header
StrongTag(tag) == <<"\"">> \o tag \o <<"\"">>
\* the weak form written without its prefix
WeakTagUnmarked(tag) == <<"\"">> \o tag \o <<"\"">>
WeakTag(tag) == <<"W/", "\"">> \o tag \o <<"\"">>

\* a setHeaders that adds Vary only for a request that accepts gzip
setHeadersVaryOnGzip(w, req, o) ==
    LET compressed == BLen(o.data) # o.size
        gzip == compressed /\ req.gzip
        w1 == IF gzip THEN [w EXCEPT !.vary = "Accept-Encoding", !.encoding = "gzip"] ELSE w
        w2 == IF o.mime # "" THEN [w1 EXCEPT !.ctype = o.mime] ELSE w1
        w3 == IF o.hash # 0
              THEN [w2 EXCEPT !.etag = IF gzip THEN WeakTag(FormatUint36(o.hash))
                                       ELSE StrongTag(FormatUint36(o.hash))]
              ELSE w2
    IN [w |-> w3, gzip |-> gzip, raw |-> (~compressed \/ gzip)]

\* setHeaders of memfs.go and part_002, object.setHeaders of part_000: the
\* headers after it; gzip: the stored container goes out as it is (what the
\* older revisions return); raw: the stored bytes go out as they are (what
\* part_000 returns)
setHeaders(w, req, o) ==
    LET compressed == BLen(o.data) # o.size
        gzip == compressed /\ req.gzip
        w1 == IF compressed
              THEN [w EXCEPT !.vary = "Accept-Encoding",
                             !.encoding = IF gzip THEN "gzip" ELSE @]
              ELSE w
        w2 == IF o.mime # "" THEN [w1 EXCEPT !.ctype = o.mime] ELSE w1
        w3 == IF o.hash # 0
              THEN [w2 EXCEPT !.etag = IF gzip THEN WeakTag(FormatUint36(o.hash))
                                       ELSE StrongTag(FormatUint36(o.hash))]
              ELSE w2
    IN [w |-> w3, gzip |-> gzip, raw |-> (~compressed \/ gzip)]

\* all the bytes a fresh handle delivers up to end-of-data
ReadAll(f) ==
    IF f.kind = "raw" THEN f.object.data
    ELSE IF LeftErr(f) # "nil" THEN <<>>
    ELSE Left(f)

\* http.FS(fsys).Open: the name without its leading slash, "." for "/"
StripRoot(name) ==
    IF name = <<Slash>> THEN <<".">>
    ELSE IF HasSlashPrefix(name) THEN Tail(name)
    ELSE name

\* an opened http.File: whether it is a directory, what Stat reports, and
\* what reading it delivers
HttpFile(err, isDir, o, size, bytes) ==
    [err |-> err, isDir |-> isDir, object |-> o, size |-> size, bytes |-> bytes]

\* rawFileSystem.Open
rawOpen(os, ds, name) ==
    IF name \in DOMAIN os
    THEN HttpFile("nil", FALSE, os[name], BLen(os[name].data), os[name].data)
    ELSE IF name \in DOMAIN ds
    THEN HttpFile("nil", TRUE, [NoObject EXCEPT !.name = Base(name)], 0, <<>>)
    ELSE HttpFile("ErrNotExist", FALSE, NoObject, 0, <<>>)

\* FileSystem.Open as the file server sees it
fsysOpen(r, os, ds, name) ==
    LET f == Open(r, os, ds, name)
    IN IF f.err # "nil" THEN HttpFile(f.err, FALSE, NoObject, 0, <<>>)
       ELSE IF f.h.kind = "dir"
       THEN HttpFile("nil", TRUE, [NoObject EXCEPT !.name = Base(name)], 0, <<>>)
       ELSE HttpFile("nil", FALSE, f.h.object,
                     IF f.h.kind = "raw" THEN RawLen(f.h) ELSE f.h.object.size,
                     ReadAll(f.h))

\* Open of the http.FileSystem that serveFile hands to http.FileServer: file
\* system fsk is "raw" for rawFileSystem{fsys} and "fsys" for fsys itself.
\* part_002 hands both over as they are, memfs.go wraps fsys in http.FS, and
\* part_000 wraps both.
HttpOpen(r, os, ds, fsk, name) ==
    LET wrapped == r = "part_001" \/ (r = "memfs.go" /\ fsk = "fsys")
        key == IF wrapped THEN StripRoot(name) ELSE name
    IN IF fsk = "raw" THEN rawOpen(os, ds, key) ELSE fsysOpen(r, os, ds, key)

\* http.Error; the file server of Go 1.23 first takes the headers of the
\* content away (strip), the one of Go 1.20 keeps them
Error(w, text, code, strip) ==
    [w EXCEPT !.status = code, !.text = text, !.body = <<>>,
              !.ctype = "text/plain; charset=utf-8", !.length = -1,
              !.etag = IF strip THEN <<>> ELSE @,
              !.encoding = IF strip THEN "" ELSE @]

\* http.NotFound
NotFound(w) == Error(w, "404 page not found", StatusNotFound, FALSE)

\* localRedirect of net/http
localRedirect(w, newPath) ==
    [w EXCEPT !.status = StatusMovedPermanently, !.location = newPath]

\* http.ServeContent for a request with no conditional and no Range header:
\* the type by extension or by sniffing when no Content-Type is set, the
\* length when no Content-Encoding is set, and the first size bytes of the
\* content unless the method is HEAD
serveContent(w, req, name, size, bytes) ==
    LET byExt == TypeByExtension(Ext(name))
        ctype == IF w.ctype # "" THEN w.ctype
                 ELSE IF byExt # "" THEN byExt
                 ELSE IF IsContainer(bytes) THEN "application/x-gzip"
                 ELSE "text/plain; charset=utf-8"
    IN [w EXCEPT !.status = StatusOK, !.ctype = ctype,
                 !.length = IF w.encoding = "" THEN size ELSE @,
                 !.body = IF req.method = "HEAD" THEN <<>> ELSE Take(bytes, size)]

\* dirList of net/http
dirList(w, req) ==
    [w EXCEPT !.status = StatusOK, !.ctype = "text/html; charset=utf-8",
              !.text = IF req.method = "HEAD" THEN "" ELSE "<pre>"]

\* http.FileServer(fs).ServeHTTP(w, r): serveFile of net/http with redirect
\* set, on the URL path that ServeFile left in the request
FileServer(r, os, ds, fsk, w, req, strip) ==
    LET url == IF HasSlashPrefix(req.path) THEN req.path ELSE <<Slash>> \o req.path
        name == Clean(url)
        f == HttpOpen(r, os, ds, fsk, name)
        ff == HttpOpen(r, os, ds, fsk, TrimSlashSuffix(name) \o IndexPage)
    IN IF HasIndexSuffix(url) THEN localRedirect(w, <<".", Slash>>)
       ELSE IF f.err # "nil" THEN Error(w, "404 page not found", StatusNotFound, strip)
       ELSE IF f.isDir /\ ~HasSlashSuffix(url)
       THEN localRedirect(w, Base(url) \o <<Slash>>)
       ELSE IF ~f.isDir /\ HasSlashSuffix(url)
       THEN localRedirect(w, <<"..", Slash>> \o Base(url))
       ELSE IF f.isDir
       THEN IF ff.err = "nil"
            THEN IF ff.isDir THEN dirList(w, req)
                 ELSE serveContent(w, req, ff.object.name, ff.size, ff.bytes)
            ELSE dirList(w, req)
       ELSE serveContent(w, req, f.object.name, f.size, f.bytes)

\* the key of the not-found document
NotFoundPage(r) == IF r = "part_001" THEN <<"404.html">> ELSE <<Slash, "404.html">>

\* FileSystem.notFound.  The older revisions write nothing for HEAD, and the
\* server then answers with the status 200 of a handler that wrote no header.
notFound(r, os, w, req) ==
    IF NotFoundPage(r) \in DOMAIN os
    THEN LET o == [os[NotFoundPage(r)] EXCEPT !.mime = "text/html; charset=utf-8", !.hash = 0]
             sh == setHeaders(w, req, o)
             stream == IF r = "part_001"
                       THEN IF sh.raw THEN o.data ELSE ReadAll(Handle("zfile", o, <<>>))
                       ELSE IF sh.gzip THEN o.data ELSE ReadAll(Handle("file", o, <<>>))
         IN IF req.method # "HEAD"
            THEN [sh.w EXCEPT !.status = StatusNotFound, !.body = stream]
            ELSE IF r = "part_001" THEN [sh.w EXCEPT !.status = StatusNotFound]
            ELSE [sh.w EXCEPT !.status = StatusOK]
    ELSE NotFound(w)

\* FileSystem.serveFile: req holds the URL path that ServeFile has set
serveFile(r, os, ds, w, req, name, strip) ==
    LET index == IF name \notin DOMAIN ds THEN name
                 ELSE IF r # "part_001" THEN TrimSlashSuffix(name) \o IndexPage
                 ELSE IF name = <<".">> THEN <<"index.html">>
                 ELSE name \o IndexPage
    IN IF index \in DOMAIN os /\ index # NotFoundPage(r)
       THEN LET sh == setHeaders(w, req, os[index])
                fsk == IF r = "part_001"
                       THEN IF sh.raw THEN "raw" ELSE "fsys"
                       ELSE IF sh.gzip THEN "raw" ELSE "fsys"
            IN FileServer(r, os, ds, fsk, sh.w, req, strip)
       ELSE notFound(r, os, w, req)

\* FileSystem.ServeFile
ServeFile(r, os, ds, w, req, name, strip) ==
    IF r = "part_001"
    THEN serveFile(r, os, ds, w,
                   [req EXCEPT !.path = IF name = <<".">> THEN <<Slash>> ELSE <<Slash>> \o name],
                   name, strip)
    ELSE LET rooted == IF HasSlashPrefix(name) THEN name ELSE <<Slash>> \o name
         IN serveFile(r, os, ds, w, [req EXCEPT !.path = rooted], Clean(rooted), strip)

\* FileSystem.ServeHTTP
ServeHTTP(r, os, ds, w, req, strip) ==
    IF r = "part_001"
    THEN LET upath == IF HasSlashPrefix(req.path) THEN req.path ELSE <<Slash>> \o req.path
         IN serveFile(r, os, ds, w, [req EXCEPT !.path = upath], StripRoot(Clean(upath)), strip)
    ELSE ServeFile(r, os, ds, w, req, req.path, strip)

\* FileSystem.ServeContent: http.ServeContent finds the size by a Seek to the end
ServeContent(r, os, w, req, name) ==
    IF name \in DOMAIN os
    THEN LET o == os[name]
             sh == setHeaders(w, req, o)
             verbatim == IF r = "part_001" THEN sh.raw ELSE sh.gzip
         IN IF verbatim THEN serveContent(sh.w, req, o.name, BLen(o.data), o.data)
            ELSE serveContent(sh.w, req, o.name, o.size,
                              ReadAll(Handle(IF r = "part_001" THEN "zfile" ELSE "file",
                                             o, <<>>)))
    ELSE NotFound(w)

\* ------------------------------------------------------------------ the store

vars == <<rev, objs, dirs, calls, last, given, h, trace, g, gtrace, ret, asked, resp, gen>>

NoReq == [op |-> "none", method |-> "GET", path |-> <<>>, gzip |-> FALSE]

\* content: the bytes the handle was opened on; from: the offset of the last
\* successful Seek; out: the bytes delivered since; seeks: whether a Seek
\* succeeded; closed: whether Close was called.  Of a directory handle, from
\* is the count of the last ReadDir and out the entries delivered so far.
NoTrace == [content |-> <<>>, from |-> 0, out |-> <<>>, seeks |-> FALSE, closed |-> FALSE,
            dropped |-> FALSE]
NoRet == [op |-> "none", name |-> <<>>, calls |-> 0, n |-> 0, err |-> "nil", bytes |-> <<>>]

NoCall == [op |-> "none", name |-> <<>>, id |-> "empty", fail |-> "none", level |-> 0,
           clen |-> 0, had |-> FALSE, err |-> "nil"]

\* memfs.Create(): no object, and the root directory with no child
Init ==
    /\ rev \in Revs
    /\ objs = <<>>
    /\ dirs = (RootDir(rev) :> <<>>)
    /\ calls = 0
    /\ last = NoCall
    /\ given = <<>>
    /\ h = NoHandle
    /\ trace = NoTrace
    /\ g = NoHandle
    /\ gtrace = NoTrace
    /\ ret = NoRet
    /\ asked = NoReq
    /\ resp = NoResp
    /\ gen = [wpc |-> "walk", cpc |-> "assets", visited |-> 0, len |-> 0, i |-> 0,
              assets |-> [full |-> FALSE, val |-> 0, closed |-> FALSE],
              lines |-> <<>>, sent |-> <<>>, got |-> <<>>, failed |-> FALSE]

\* the names the inserts are tried with: names without a leading slash, and
\* the same names rooted
UNames == {<<"a">>, <<"b">>, <<"a", Slash, "b">>, <<"a", Slash, "x">>,
           <<"a", Slash, "b", Slash, "c.txt">>}
Rooted(names) == {<<Slash>> \o n : n \in names}
\* what Create and CreateCompressed are called with under revision r: the
\* names of its own shape, its root, and one name of the other shape
NamesOf(r) ==
    IF r = "part_002"
    THEN Rooted(UNames) \cup {<<Slash>>, <<"a">>}
    ELSE UNames \cup {<<".">>, <<Slash, "a", Slash, "b", Slash, "c.txt">>}
\* what the generated code calls CreateString with: the generator of the
\* rooted revisions emits "/" + path, part_001 takes fs.WalkDir paths
StringNamesOf(r) == IF r = "part_001" THEN UNames ELSE Rooted(UNames)

\* the lengths the compressor may produce for n bytes: the largest one that is
\* kept, and the smallest one that is not
CLens(n) == {(4 * n) \div 5, (4 * n) \div 5 + 1}

\* the k-th insert call carries the modification time k
Installed(res, name, content) ==
    /\ objs' = res.objs
    /\ dirs' = res.dirs
    /\ calls' = calls + 1
    /\ given' = IF res.err = "nil" THEN (name :> content) @@ given ELSE given
    /\ UNCHANGED <<rev, h, trace, g, gtrace, ret, asked, resp, gen>>

DoCreate(names, ids, fails, max) ==
    \E name \in names, id \in ids, fail \in fails :
        /\ calls < max
        /\ LET res == Create(rev, objs, dirs, name, "", calls + 1, [id |-> id, fail |-> fail])
           IN /\ Installed(res, name, Whole(id))
              /\ last' = [op |-> "Create", name |-> name, id |-> id, fail |-> fail,
                          level |-> 0, clen |-> 0, had |-> name \in DOMAIN objs,
                          err |-> res.err]

\* the lengths of the compressor's output for n bytes: close to the limit of
\* what is kept, as long as the content, or none because the compressor fails
ZipLens(zip, n) ==
    IF zip = "fails" THEN {ZipError}
    ELSE IF zip = "same" THEN {n}
    ELSE CLens(n)

\* cases: the failure of the source, the compression level, and what the
\* compressor does in a call; the compressor produces output only when it runs
DoCreateCompressed(names, ids, cases, max) ==
    \E name \in names, id \in ids, c \in cases :
      \E clen \in IF ValidLevel(c[2]) /\ c[2] # NoCompression /\ SrcLen[id] >= MinCompressSize
                   THEN ZipLens(c[3], SrcLen[id]) ELSE {0} :
        /\ calls < max
        /\ LET res == CreateCompressed(rev, objs, dirs, name, "", calls + 1,
                                       [id |-> id, fail |-> c[1]], c[2], clen)
           IN /\ Installed(res, name, Whole(id))
              /\ last' = [op |-> "CreateCompressed", name |-> name, id |-> id,
                          fail |-> c[1], level |-> c[2], clen |-> clen,
                          had |-> name \in DOMAIN objs, err |-> res.err]

\* the pre-built objects of the generator: raw, or a gzip container it kept
DoCreateString(names, ids, max) ==
    \E name \in names, id \in ids :
        /\ calls < max
        /\ LET clen == (4 * SrcLen[id]) \div 5
               gz == SrcLen[id] >= MinCompressSize
               res == IF gz
                      THEN CreateString(rev, objs, dirs, name, "", calls + 1, IEEE[id],
                                        SrcLen[id], Container(id, clen))
                      ELSE CreateString(rev, objs, dirs, name, "", calls + 1,
                                        Castagnoli[id], SrcLen[id], Whole(id))
           IN /\ Installed(res, name, Whole(id))
              /\ last' = [op |-> "CreateString", name |-> name, id |-> id, fail |-> "none",
                          level |-> 0, clen |-> IF gz THEN clen ELSE 0,
                          had |-> name \in DOMAIN objs, err |-> res.err]

\* the index: many names, few contents
NextIndex ==
    \/ DoCreate(NamesOf(rev), {"hello"}, {"none"}, MaxPuts)
    \/ DoCreateCompressed(NamesOf(rev), {"page"}, {<<"none", 6, "shrinks">>}, MaxPuts)
    \/ DoCreateString(StringNamesOf(rev), {"hello"}, MaxPuts)

SpecIndex == Init /\ [][NextIndex]_vars

\* the generated code: CreateString called for the files of a tree in the
\* order fs.WalkDir visits them, a call repeated at once included
MaxWalkPuts == 4

\* the files of a walked tree, a/b/c.txt, a/b/x, a/x, b, x/c.txt, named as the
\* generated code of the revision names them
WalkNamesOf(r) ==
    LET names == {<<"a", Slash, "b", Slash, "c.txt">>, <<"a", Slash, "b", Slash, "x">>,
                  <<"a", Slash, "x">>, <<"b">>, <<"x", Slash, "c.txt">>}
    IN IF r = "part_001" THEN names ELSE Rooted(names)

\* p is visited no later than q by fs.WalkDir, which reads each directory
\* sorted by file name: they are the same file, or the first element in which
\* they differ sorts lower in p
WalkOrder(p, q) ==
    LET rank == "a" :> 1 @@ "b" :> 2 @@ "c.txt" :> 3 @@ "x" :> 4
    IN \/ p = q
       \/ \E i \in 1..Len(p) :
             /\ i <= Len(q) /\ p[i] # q[i] /\ rank[p[i]] < rank[q[i]]
             /\ \A j \in 1..(i - 1) : p[j] = q[j]

NextWalk ==
    /\ DoCreateString(WalkNamesOf(rev), {"hello", "page"}, MaxWalkPuts)
    /\ last.op = "CreateString" => WalkOrder(last.name, last'.name)

SpecWalk == Init /\ [][NextWalk]_vars

\* the create calls: few names, every failure, sizes around MinCompressSize
CreateNamesOf(r) ==
    IF r = "part_002"
    THEN {<<Slash, "a">>, <<Slash, "a", Slash, "b">>, <<"a">>}
    ELSE {<<"a">>, <<"a", Slash, "b">>, <<Slash, "a">>}

CompressCases ==
    {<<"none", 6, "shrinks">>, <<"none", NoCompression, "shrinks">>, <<"none", 10, "shrinks">>,
     <<"seek", 6, "shrinks">>, <<"read", 6, "shrinks">>, <<"read", 10, "shrinks">>,
     <<"none", 6, "fails">>, <<"none", 6, "same">>}

NextCreate ==
    \/ DoCreate(CreateNamesOf(rev), {"hello"}, {"none", "seek", "read"}, MaxCreates)
    \/ DoCreateCompressed(CreateNamesOf(rev), {"small", "edge", "page"}, CompressCases,
                          MaxCreates)

SpecCreate == Init /\ [][NextCreate]_vars

\* ------------------------------------------------------------------ reading

\* the one file of the runs of the handles; Open is also tried on the root
\* directory and on a name that is not there
ReaderNamesOf(r) == IF r = "part_002" THEN {<<Slash, "a">>} ELSE {<<"a">>}
OpenNamesOf(r) == ReaderNamesOf(r) \cup {RootDir(r), <<"zz">>}

\* the buffers a Read is given for an object of n bytes: one that takes half
\* of it, and one that takes more than all of it
BufSizes(n) == {(n + 1) \div 2, n + 1}

\* the <<offset, whence>> a Seek is given for an object of n bytes
SeekCases(n) ==
    {<<0, SeekStart>>, <<1, SeekStart>>, <<n \div 2, SeekStart>>, <<n, SeekStart>>,
     <<n + 1, SeekStart>>, <<-1, SeekStart>>, <<0, SeekCurrent>>,
     <<-(n + 1), SeekCurrent>>, <<-1, SeekEnd>>, <<0, 3>>}

\* r is what the operation op returned
Returns(op, name, r) ==
    /\ ret' = [op |-> op, name |-> name, calls |-> calls, n |-> r.n, err |-> r.err,
               bytes |-> r.bytes]
    /\ UNCHANGED <<rev, objs, dirs, calls, last, given, asked, resp, gen>>

\* the same for an operation of the runs that hold one handle
Returned(op, name, r) == Returns(op, name, r) /\ UNCHANGED <<g, gtrace>>

DoOpen ==
    \E name \in OpenNamesOf(rev) :
        LET r == Open(rev, objs, dirs, name)
        IN /\ h' = IF r.err = "nil" THEN r.h ELSE h
           /\ trace' = IF r.err = "nil"
                       THEN [NoTrace EXCEPT !.content = IF name \in DOMAIN given
                                                       THEN given[name] ELSE <<>>]
                       ELSE trace
           /\ Returned("Open", name, r)

DoRead ==
    /\ h.kind # "none"
    /\ \E l \in BufSizes(h.object.size) : \E oc \in ReadOutcomes(h, l) :
          LET r == Read(rev, h, l, oc)
          IN /\ h' = r.h
             /\ trace' = [trace EXCEPT !.out = Cat(@, r.bytes)]
             /\ Returned("Read", h.object.name, r)

\* Seek sets f.reader = nil and calls no Close: TRUE when the handle f held a
\* gzip reader that the Seek leading to f2 has let go of
Drops(f, f2) ==
    /\ f.kind \in {"file", "zfile"} /\ BLen(f.object.data) # f.object.size
    /\ f.reader # <<>> /\ f2.reader = <<>>

\* the dir of part_001 has no Seek
DoSeek ==
    /\ h.kind # "none"
    /\ ~(rev = "part_001" /\ h.kind = "dir")
    /\ \E c \in SeekCases(h.object.size) :
          LET r == Seek(h, c[1], c[2])
          IN /\ h' = r.h
             /\ trace' = IF r.err = "nil"
                         THEN [trace EXCEPT !.from = r.n, !.out = <<>>, !.seeks = TRUE,
                                            !.dropped = @ \/ Drops(h, r.h)]
                         ELSE trace
             /\ Returned("Seek", h.object.name, r)

DoClose ==
    /\ h.kind # "none"
    /\ LET r == Close(h)
       IN /\ h' = r.h
          /\ trace' = [trace EXCEPT !.closed = TRUE]
          /\ Returned("Close", h.object.name, r)

DoReadFile ==
    /\ rev = "part_001"
    /\ \E name \in OpenNamesOf(rev) :
          /\ Returned("ReadFile", name, ReadFile(objs, dirs, name))
          /\ UNCHANGED <<h, trace>>

NextReader ==
    \/ DoCreate(ReaderNamesOf(rev), {"empty", "hello"}, {"none"}, MaxReaderPuts)
    \/ DoCreateCompressed(ReaderNamesOf(rev), {"page"}, {<<"none", 6, "shrinks">>}, MaxReaderPuts)
    \/ DoOpen
    \/ DoRead
    \/ DoSeek
    \/ DoClose
    \/ DoReadFile

SpecReader == Init /\ [][NextReader]_vars

\* one handle read to its end: no Seek, and a caller that keeps calling Read
NextDrain ==
    \/ h.kind = "none" /\ DoCreate(ReaderNamesOf(rev), {"empty", "hello"}, {"none"}, MaxReaderPuts)
    \/ h.kind = "none" /\ DoCreateCompressed(ReaderNamesOf(rev), {"page"},
                                              {<<"none", 6, "shrinks">>}, MaxReaderPuts)
    \/ h.kind = "none" /\ DoOpen
    \/ DoRead
    \/ DoClose

SpecDrain == Init /\ [][NextDrain]_vars /\ WF_vars(DoRead)

\* ------------------------------------------------------------------ streams that fail

\* CreateString called with a declared size that is slack bytes more than the
\* content holds: a gzip container whose stream ends before the declared
\* size, or bytes that are no container at all
DoCreateStringSized(names, ids, slack, max) ==
    \E name \in names, id \in ids :
        /\ calls < max
        /\ LET clen == (4 * SrcLen[id]) \div 5
               gz == SrcLen[id] >= MinCompressSize
               res == CreateString(rev, objs, dirs, name, "", calls + 1, IEEE[id],
                                   SrcLen[id] + slack,
                                   IF gz THEN Container(id, clen) ELSE Whole(id))
           IN /\ Installed(res, name, Whole(id))
              /\ last' = [op |-> "CreateString", name |-> name, id |-> id, fail |-> "none",
                          level |-> 0, clen |-> IF gz THEN clen ELSE 0,
                          had |-> name \in DOMAIN objs, err |-> res.err]

\* handles on objects whose stream cannot be made or ends too early
NextStream ==
    \/ DoCreateStringSized(ReaderNamesOf(rev), {"hello", "page"}, 2, MaxStreamPuts)
    \/ DoCreateString(ReaderNamesOf(rev), {"page"}, MaxStreamPuts)
    \/ DoOpen
    \/ DoRead
    \/ DoSeek
    \/ DoClose

SpecStream == Init /\ [][NextStream]_vars

\* ------------------------------------------------------------------ two handles

\* the <<offset, whence>> of the Seeks of the runs with two handles
PairSeeks(n) == {<<1, SeekStart>>, <<-1, SeekStart>>}

\* the buffer of their Reads: one that takes half of an object of n bytes
PairBufs(n) == {(n + 1) \div 2}

\* the handle the call is made on becomes f; the other handle is not the
\* receiver of the call and nothing of it is written
OnHandle(first, f, t) ==
    IF first
    THEN h' = f /\ trace' = t /\ UNCHANGED <<g, gtrace>>
    ELSE g' = f /\ gtrace' = t /\ UNCHANGED <<h, trace>>

DoOpenPair ==
    \E first \in BOOLEAN, name \in ReaderNamesOf(rev) :
        LET r == Open(rev, objs, dirs, name)
        IN /\ r.err = "nil"
           /\ OnHandle(first, r.h, [NoTrace EXCEPT !.content = given[name]])
           /\ Returns("Open", name, r)

DoReadPair ==
    \E first \in BOOLEAN :
        LET f == IF first THEN h ELSE g
            t == IF first THEN trace ELSE gtrace
        IN /\ f.kind # "none"
           /\ \E l \in PairBufs(f.object.size) : \E oc \in ReadOutcomes(f, l) :
                 LET r == Read(rev, f, l, oc)
                 IN /\ OnHandle(first, r.h, [t EXCEPT !.out = Cat(@, r.bytes)])
                    /\ Returns("Read", f.object.name, r)

DoSeekPair ==
    \E first \in BOOLEAN :
        LET f == IF first THEN h ELSE g
            t == IF first THEN trace ELSE gtrace
        IN /\ f.kind # "none"
           /\ \E c \in PairSeeks(f.object.size) :
                 LET r == Seek(f, c[1], c[2])
                 IN /\ OnHandle(first, r.h,
                                IF r.err = "nil"
                                THEN [t EXCEPT !.from = r.n, !.out = <<>>, !.seeks = TRUE,
                                               !.dropped = @ \/ Drops(f, r.h)]
                                ELSE t)
                    /\ Returns("Seek", f.object.name, r)

DoClosePair ==
    \E first \in BOOLEAN :
        LET f == IF first THEN h ELSE g
            t == IF first THEN trace ELSE gtrace
            r == Close(f)
        IN /\ f.kind # "none"
           /\ OnHandle(first, r.h, [t EXCEPT !.closed = TRUE])
           /\ Returns("Close", f.object.name, r)

\* two handles on the one name; the object at the name may be replaced
\* before the second handle is opened, the first handle being in use
NextPair ==
    \/ g.kind = "none" /\ DoCreate(ReaderNamesOf(rev), {"hello"}, {"none"}, MaxPairPuts)
    \/ g.kind = "none" /\ DoCreateCompressed(ReaderNamesOf(rev), {"page"},
                                              {<<"none", 6, "shrinks">>}, MaxPairPuts)
    \/ DoOpenPair
    \/ DoReadPair
    \/ DoSeekPair
    \/ DoClosePair

SpecPair == Init /\ [][NextPair]_vars

\* ------------------------------------------------------------------ directories

\* the directories that are opened: every one of the index, and "."
DoOpenDir ==
    \E name \in DOMAIN dirs \cup {<<".">>} :
        LET r == Open(rev, objs, dirs, name)
        IN /\ h' = IF r.err = "nil" THEN r.h ELSE h
           /\ trace' = IF r.err = "nil" THEN NoTrace ELSE trace
           /\ Returned("Open", name, r)

\* ReadDir for all the entries, and for one entry at a time
DoReadDir ==
    /\ h.kind = "dir"
    /\ \E count \in {-1, 1} :
          LET r == ReadDir(objs, dirs, h, count)
          IN /\ h' = r.h
             /\ trace' = [trace EXCEPT !.from = count, !.out = @ \o r.bytes]
             /\ Returned("ReadDir", h.object.name, r)

\* a tree built by Create alone, and its directories read
NextTree ==
    \/ DoCreate(NamesOf(rev), {"hello"}, {"none"}, MaxTreePuts)
    \/ DoOpenDir
    \/ DoReadDir
    \/ DoClose

SpecTree == Init /\ [][NextTree]_vars

\* ------------------------------------------------------------------ serving

\* the files of the runs of the requests, by the call that inserts them;
\* part_002 takes rooted names, and the generator of the older revisions
\* emits rooted names; memfs.go looks up "/index.html", which only CreateString
\* can store there
Named(r, names) == IF r = "part_002" THEN Rooted(names) ELSE names
PlainFiles == {<<"index.html">>, <<"404.html">>}
CompressedFiles == {<<"a", Slash, "index.html">>}
StringFiles(r) ==
    IF r = "part_001" THEN {<<"big.txt">>}
    ELSE IF r = "part_002" THEN {<<Slash, "big.txt">>}
    ELSE {<<Slash, "big.txt">>, <<Slash, "index.html">>}

\* the URL paths of the requests
ReqPaths ==
    {<<Slash>>, <<Slash, "a">>, <<Slash, "a", Slash>>, <<Slash, "a", Slash, "index.html">>,
     <<Slash, "big.txt">>, <<Slash, "404.html">>, <<Slash, "zz">>, <<"big.txt">>,
     <<Slash, "a", Slash, "..", Slash, "big.txt">>}

\* the names ServeFile is called with
FileNamesOf(r) ==
    IF r = "part_001"
    THEN {<<".">>, <<"a">>, <<"big.txt">>, <<"zz">>, <<"404.html">>}
    ELSE {<<Slash>>, <<Slash, "a", Slash>>, <<"big.txt">>, <<Slash, "zz">>, <<"404.html">>}

Methods == {"GET", "HEAD"}

\* a serve operation that works on the stored not-found document itself and
\* not on a copy of it
ServedInPlace(op, rq, w) ==
    /\ asked' = [op |-> op, method |-> rq.method, path |-> rq.path, gzip |-> rq.gzip]
    /\ resp' = w
    /\ objs' = [n \in DOMAIN objs |->
                  IF n = NotFoundPage(rev) /\ op # "ServeContent"
                  THEN [objs[n] EXCEPT !.mime = "text/html; charset=utf-8", !.hash = 0]
                  ELSE objs[n]]
    /\ UNCHANGED <<rev, dirs, calls, last, given, h, trace, g, gtrace, ret, gen>>

\* w is the response to the request rq that op was called with
Served(op, rq, w) ==
    /\ asked' = [op |-> op, method |-> rq.method, path |-> rq.path, gzip |-> rq.gzip]
    /\ resp' = w
    /\ UNCHANGED <<rev, objs, dirs, calls, last, given, h, trace, g, gtrace, ret, gen>>

DoServeHTTP ==
    \E urlpath \in ReqPaths, method \in Methods, gzip \in BOOLEAN, strip \in BOOLEAN :
        LET rq == Request(method, urlpath, gzip)
        IN Served("ServeHTTP", rq, ServeHTTP(rev, objs, dirs, NoResp, rq, strip))

DoServeFile ==
    \E name \in FileNamesOf(rev), method \in Methods, gzip \in BOOLEAN, strip \in BOOLEAN :
        LET rq == Request(method, name, gzip)
        IN Served("ServeFile", rq, ServeFile(rev, objs, dirs, NoResp, rq, name, strip))

DoServeContent ==
    \E name \in DOMAIN objs \cup {<<"zz">>}, method \in Methods, gzip \in BOOLEAN :
        LET rq == Request(method, name, gzip)
        IN Served("ServeContent", rq, ServeContent(rev, objs, NoResp, rq, name))

\* the store is built before the first request is served
NextServe ==
    \/ asked.op = "none" /\ DoCreate(Named(rev, PlainFiles), {"hello"}, {"none"}, MaxServePuts)
    \/ asked.op = "none" /\ DoCreateCompressed(Named(rev, CompressedFiles), {"page"},
                                              {<<"none", 6, "shrinks">>}, MaxServePuts)
    \/ asked.op = "none" /\ DoCreateString(StringFiles(rev), {"page"}, MaxServePuts)
    \/ DoServeHTTP
    \/ DoServeFile
    \/ DoServeContent

SpecServe == Init /\ [][NextServe]_vars

\* ------------------------------------------------------------------ every reading operation

\* insert calls in one run of the reading operations
MaxFramePuts == 2

\* a store of files, index and not-found documents, raw and compressed, built
\* before the first handle is opened and the request is served; then handles
\* opened, read, moved and closed and directories read, on the stores that are
\* not full, or a request served
NextFrame ==
    \/ /\ h.kind = "none" /\ asked.op = "none"
       /\ DoCreate(ReaderNamesOf(rev) \cup Named(rev, PlainFiles), {"empty", "hello"},
                   {"none"}, MaxFramePuts)
    \/ /\ h.kind = "none" /\ asked.op = "none"
       /\ DoCreateCompressed(ReaderNamesOf(rev), {"page"}, {<<"none", 6, "shrinks">>},
                             MaxFramePuts)
    \/ /\ h.kind = "none" /\ asked.op = "none"
       /\ DoCreateString(StringFiles(rev), {"page"}, MaxFramePuts)
    \/ asked.op = "none" /\ calls < MaxFramePuts /\ DoOpen
    \/ asked.op = "none" /\ calls < MaxFramePuts /\ DoOpenDir
    \/ asked.op = "none" /\ calls < MaxFramePuts /\ DoRead
    \/ asked.op = "none" /\ calls < MaxFramePuts /\ DoSeek
    \/ asked.op = "none" /\ calls < MaxFramePuts /\ DoReadDir
    \/ asked.op = "none" /\ calls < MaxFramePuts /\ DoClose
    \/ asked.op = "none" /\ calls < MaxFramePuts /\ DoReadFile
    \/ asked.op = "none" /\ h.kind = "none" /\ DoServeHTTP
    \/ asked.op = "none" /\ h.kind = "none" /\ DoServeFile
    \/ asked.op = "none" /\ h.kind = "none" /\ DoServeContent

SpecFrame == Init /\ [][NextFrame]_vars

\* ------------------------------------------------------------------ the index: claims

\* the directory a path lies in: its prefix up to the last slash, the root
\* directory for a path of one element
Parent(r, name) ==
    LET d == SplitDir(name)
    IN IF Len(d) > 1 THEN SubSeq(d, 1, Len(d) - 1) ELSE RootDir(r)

\* every directory from the parent of name up to the root exists and lists
\* the child that lies on the way to name
RECURSIVE LinkedUp(_, _, _)
LinkedUp(r, ds, name) ==
    LET p == Parent(r, name)
    IN /\ p \in DOMAIN ds
       /\ \E i \in 1..Len(ds[p]) : ds[p][i] = name
       /\ (p = RootDir(r) \/ LinkedUp(r, ds, p))

\* an insert call of the kind ops is being made
Inserting(ops) == calls' = calls + 1 /\ last'.op \in ops

\* how often x occurs in a listing
Count(list, x) == Cardinality({i \in 1..Len(list) : list[i] = x})

NoDuplicates(ds) == \A d \in DOMAIN ds : \A x \in {ds[d][i] : i \in 1..Len(ds[d])} : Count(ds[d], x) = 1

\* the object at the name of the last successful insert is the one it was given
LastInstalled ==
    (last.op # "none" /\ last.err = "nil") =>
        /\ last.name \in DOMAIN objs
        /\ objs[last.name].time = calls
        /\ objs[last.name].size = SrcLen[last.id]
        /\ objs[last.name].name = SplitFile(last.name)
        /\ objs[last.name].data \in {Whole(last.id), Container(last.id, last.clen)}

(* C1: after any sequence of successful inserts, every ancestor directory of
   every stored object, the root included, is in the index and lists the child
   on the path to the object; and every directory of the index but the root is
   listed in its parent. *)
C1_AncestorsLinked ==
    /\ \A n \in DOMAIN objs : LinkedUp(rev, dirs, n)
    /\ \A d \in DOMAIN dirs : d = RootDir(rev) \/ LinkedUp(rev, dirs, d)

(* C23: when CreateString is called in the order of a depth-first walk of a
   tree, a call repeated at once included, each call leaves the directory index
   that the full scan of the listings would have left, and no listing names a
   child twice. *)
C23_WalkOrderScans ==
    [][Inserting({"CreateString"}) =>
        /\ dirs' = put(rev, objs, dirs, last'.name, objs'[last'.name], FALSE).dirs
        /\ NoDuplicates(dirs')]_vars

\* files of two directories were appended, one of them twice in a row, and a
\* listing holds two children
C23_Witness ==
    /\ last.op = "CreateString" /\ last.had /\ objs[last.name].time = calls
    /\ calls = MaxWalkPuts
    /\ \E d \in DOMAIN dirs : Len(dirs[d]) >= 2
    /\ \E n \in DOMAIN objs : Parent(rev, n) # Parent(rev, last.name)

(* C27: after any sequence of inserts no path is both a key of the object map
   and a key of the directory index. *)
C27_FileOrDirectory == DOMAIN objs \cap DOMAIN dirs = {}

\* what Stat and Open make of a name in a store: "file", "dir" or "none"
StatKind(os, ds, name) ==
    LET s == stat(os, ds, name)
    IN IF s.err # "nil" THEN "none" ELSE IF s.isDir THEN "dir" ELSE "file"
OpenKind(os, ds, name) ==
    LET o == Open(rev, os, ds, name)
    IN IF o.err # "nil" THEN "none" ELSE IF o.h.kind = "dir" THEN "dir" ELSE "file"

\* every name of the store, and the names of the calls, some of them unknown
Resolved == DOMAIN objs \cup DOMAIN dirs \cup NamesOf(rev)

\* Open and Stat agree on every name: both fail, or both find the same kind
C29_OpenAsStat == \A name \in Resolved : OpenKind(objs, dirs, name) = StatKind(objs, dirs, name)

(* C29: Open succeeds exactly when Stat succeeds, and both report the same
   kind; an unknown name is not found by either; and a name that resolves to a
   file or to a directory resolves to the same kind after every later insert. *)
C29_ResolutionKept ==
    [][/\ C29_OpenAsStat'
       /\ \A name \in Resolved :
             StatKind(objs, dirs, name) # "none"
                => StatKind(objs', dirs', name) = StatKind(objs, dirs, name)]_vars

(* C6 as stated: Create and CreateCompressed on a path registered as a
   directory fail with already-exists and leave the store as it was. *)
C6_DirectoryAlreadyExists ==
    [][(Inserting({"Create", "CreateCompressed"}) /\ last'.name \in DOMAIN dirs)
        => (last'.err = "ErrExist" /\ store' = store)]_vars

(* C6 amended: Create and CreateCompressed on a path registered as a directory
   fail and leave the store as it was; the failure is already-exists when the
   name has the shape the revision accepts, and invalid-argument when it has
   not (the root "/" of part_002, which ends with a slash). *)
C6_DirectoryRejected ==
    [][(Inserting({"Create", "CreateCompressed"}) /\ last'.name \in DOMAIN dirs)
        => /\ store' = store
           /\ last'.err = IF ValidName(rev, last'.name) THEN "ErrExist" ELSE "ErrInvalid"]_vars

\* CreateCompressed with a compression level was refused on a directory that
\* earlier inserts made
C6_Witness ==
    /\ last.op = "CreateCompressed" /\ last.level # NoCompression
    /\ last.err = "ErrExist"
    /\ last.name # RootDir(rev)
    /\ dirs[last.name] # <<>>

(* C8 as stated: re-inserting a path replaces its object in place, and after
   any sequence of inserts no directory listing holds the same path twice. *)
C8_NeverDuplicates == NoDuplicates(dirs) /\ LastInstalled

(* C8 amended: every successful insert leaves at its path the object it was
   given, and an insert by Create or CreateCompressed (the full scan) adds no
   second copy of an entry to any listing.  CreateString checks the last entry
   alone and adds one when its paths do not arrive in tree-walk order. *)
C8_ScanNeverDuplicates ==
    [][/\ LastInstalled'
       /\ Inserting({"Create", "CreateCompressed"}) =>
             \A d \in DOMAIN dirs' : \A i \in 1..Len(dirs'[d]) :
                 Count(dirs'[d], dirs'[d][i]) <= 1 \/
                 (d \in DOMAIN dirs /\ Count(dirs'[d], dirs'[d][i]) = Count(dirs[d], dirs'[d][i]))]_vars

\* Create replaced an object below a directory that lists other children too
C8_Witness ==
    /\ last.op = "Create" /\ last.err = "nil" /\ last.had
    /\ objs[last.name].time = calls
    /\ Len(dirs[Parent(rev, last.name)]) > 1
    /\ NoDuplicates(dirs)

\* ------------------------------------------------------------------ the create calls: claims

\* the object the last call stored is a gzip container
StoredCompressed(o) == BLen(o.data) # o.size

(* C4: CreateCompressed keeps the compressed result only if its length is at
   most 0.8 times the length of the content, a result of exactly that length
   being kept; in every other successful call the stored bytes are the content
   itself; the declared size is the length of the content in both. *)
C4_CompressionGate ==
    (last.op = "CreateCompressed" /\ last.err = "nil") =>
        LET o == objs[last.name]
            n == SrcLen[last.id]
        IN /\ o.size = n
           /\ StoredCompressed(o) =>
                 (o.data = Container(last.id, last.clen) /\ 5 * BLen(o.data) <= 4 * n)
           /\ ~StoredCompressed(o) => o.data = Whole(last.id)
           /\ (last.clen > 0 /\ 5 * last.clen = 4 * n) => StoredCompressed(o)

\* a result of exactly 0.8 times the content was kept
C4_Witness ==
    /\ last.op = "CreateCompressed" /\ last.err = "nil"
    /\ 5 * last.clen = 4 * SrcLen[last.id]
    /\ objs[last.name].data = Container(last.id, last.clen)

(* C7: every create call is atomic: a Create or CreateCompressed that returns
   an error leaves the objects and every directory listing as they were, and
   one that succeeds has installed the object and every ancestor link. *)
C7_CreateAtomic ==
    [][Inserting({"Create", "CreateCompressed"}) =>
         IF last'.err # "nil"
         THEN store' = store
         ELSE last'.name \in DOMAIN objs' /\ LinkedUp(rev, dirs', last'.name)]_vars

(* C14: a CreateCompressed call whose compressor cannot be constructed (the
   level is not one gzip has) or whose compressor fails in Write or Close
   returns an error; it never returns success with the content stored raw. *)
C14_CompressionFailureFails ==
    (/\ last.op = "CreateCompressed"
     /\ ValidName(rev, last.name) /\ last.fail = "none"
     /\ SrcLen[last.id] >= MinCompressSize
     /\ last.level # NoCompression
     /\ ~ValidLevel(last.level) \/ last.clen = ZipError)
        => last.err # "nil"

(* C17: for every object installed by Create or CreateCompressed, the stored
   length equals the declared size exactly when the stored bytes are the
   content as it was given; a compressed result that was kept never has the
   length of the declared size, so the comparison of length and size that Open
   and setHeaders make takes a container for a container and raw bytes for raw
   bytes. *)
C17_LengthTellsRaw ==
    \A name \in DOMAIN objs :
        LET o == objs[name]
        IN /\ o.size = BLen(given[name])
           /\ (BLen(o.data) = o.size) <=> (o.data = given[name])
           /\ IsContainer(o.data) => BLen(o.data) # o.size
           /\ o.data # given[name] => (IsContainer(o.data) /\ Gunzip(o.data) = given[name])
           /\ setHeaders(NoResp, Request("GET", <<Slash>>, TRUE), o).gzip <=> IsContainer(o.data)
           /\ rev = "part_001" =>
                  (Open(rev, objs, dirs, name).h.kind = "zfile" <=> IsContainer(o.data))

\* CreateCompressed kept a result for one object and stored another raw,
\* its compressor having produced as many bytes as the content has
C17_Witness ==
    /\ last.op = "CreateCompressed" /\ last.err = "nil" /\ last.clen = SrcLen[last.id]
    /\ objs[last.name].data = Whole(last.id)
    /\ \E name \in DOMAIN objs : IsContainer(objs[name].data)

\* what Create returns for the arguments of the call being made
AsCreate == Create(rev, objs, dirs, last'.name, "", calls', [id |-> last'.id, fail |-> last'.fail])

(* C25: a CreateCompressed call with the level NoCompression, or with content
   shorter than MinCompressSize at any level, leaves the object map and the
   directory index that Create leaves for the same arguments, and returns what
   Create returns; when it succeeds the object holds the content as it is and
   the checksum of the content. *)
C25_AsCreate ==
    [][(/\ Inserting({"CreateCompressed"})
        /\ (last'.level = NoCompression \/ SrcLen[last'.id] < MinCompressSize))
        => /\ objs' = AsCreate.objs
           /\ dirs' = AsCreate.dirs
           /\ last'.err = AsCreate.err
           /\ last'.err = "nil" =>
                 /\ objs'[last'.name].data = Whole(last'.id)
                 /\ objs'[last'.name].hash = Castagnoli[last'.id]]_vars

\* CreateCompressed stored content of less than MinCompressSize bytes at a
\* level that compresses, over an object that an earlier call had compressed
C25_Witness ==
    /\ last.op = "CreateCompressed" /\ last.err = "nil" /\ last.level = 6
    /\ SrcLen[last.id] < MinCompressSize /\ last.had
    /\ objs[last.name].data = Whole(last.id)

\* ------------------------------------------------------------------ reading: claims

\* the handle is one of an object, and Close was not called on it
OpenFile == h.kind \in {"file", "raw", "zfile"} /\ ~trace.closed

\* the last operation was a Read that reported the end of the data
AtEOF == ret.op = "Read" /\ ret.err = "EOF"

\* the bytes delivered since offset k are the content from k on, as far as
\* they go, and all of it once the end is reported
DeliveredFrom(k) ==
    /\ BLen(trace.out) <= BLen(Drop(trace.content, k))
    /\ trace.out = Take(Drop(trace.content, k), BLen(trace.out))
    /\ AtEOF => trace.out = Drop(trace.content, k)

(* C2: a handle opened on an object that Create or CreateCompressed installed,
   read from position 0 with no Seek, delivers the bytes given at creation in
   order, fails with nothing but end-of-data, and has delivered exactly
   declared-size bytes, all the content, when end-of-data is reported: for an
   object stored raw and for one stored compressed.  ReadFile on the object
   returns the same bytes. *)
C2_RoundTrip ==
    /\ (OpenFile /\ ~trace.seeks) =>
          /\ ret.op = "Read" => ret.err \in {"nil", "EOF"}
          /\ DeliveredFrom(0)
          /\ AtEOF => BLen(trace.out) = h.object.size
    /\ (ret.op = "ReadFile" /\ ret.calls = calls /\ ret.name \in DOMAIN objs) =>
          /\ ret.err = "nil"
          /\ ret.bytes = given[ret.name]
          /\ ret.n = objs[ret.name].size

\* a handle on the compressed object was read to the end in several Reads
C2_Witness ==
    /\ OpenFile /\ ~trace.seeks /\ AtEOF
    /\ StoredCompressed(h.object)
    /\ ret.n < h.object.size
    /\ trace.out = Whole("page")

(* C3: on an open handle of an object, raw or compressed, after a Seek to an
   offset k in [0, declared-size] that follows any Reads and Seeks, the Reads
   deliver the content from k on (what a fresh handle delivers after its
   first k bytes) up to end-of-data, and no Read after the Seek fails with
   anything but end-of-data. *)
C3_SeekConsistent ==
    (OpenFile /\ trace.seeks /\ trace.from <= h.object.size) =>
        /\ ret.op = "Read" => ret.err \in {"nil", "EOF"}
        /\ DeliveredFrom(trace.from)

\* a Seek into the middle of the compressed object, read to its end
C3_Witness ==
    /\ OpenFile /\ trace.seeks /\ AtEOF
    /\ StoredCompressed(h.object)
    /\ trace.from = h.object.size \div 2
    /\ trace.out = Drop(Whole("page"), SrcLen["page"] \div 2)

(* C33: on a handle of an object that Create or CreateCompressed installed,
   read with no Seek, the position never exceeds the declared size; a caller
   that keeps calling Read gets end-of-data in the end, unless it closes the
   handle; and a Read that follows a Read that returned end-of-data returns
   end-of-data and no bytes. *)
C33_ReadsEnd ==
    /\ [](OpenFile => h.pos <= h.object.size)
    /\ [][(OpenFile /\ AtEOF /\ ret'.op = "Read")
            => (ret'.err = "EOF" /\ ret'.n = 0 /\ ret'.bytes = <<>>)]_vars
    /\ OpenFile ~> (AtEOF \/ trace.closed)

\* the compressed object was read to its end in several Reads, and a further
\* Read returned end-of-data with no bytes
C33_Witness ==
    /\ OpenFile /\ AtEOF /\ ret.n = 0
    /\ StoredCompressed(h.object)
    /\ h.pos = h.object.size
    /\ trace.out = Whole("page")

(* C9: once Close was called on a handle of an object, every Read and every
   Seek on it fails with the closed-handle error and delivers no bytes. *)
C9_ClosedAbsorbing ==
    (h.kind \in {"file", "raw", "zfile"} /\ trace.closed /\ ret.op \in {"Read", "Seek"}) =>
        (ret.err = "ErrClosed" /\ ret.n = 0 /\ ret.bytes = <<>>)

(* C19: Seek on an open handle of an object computes base + offset, the base
   being 0, the position or the declared size, and returns that offset, which
   becomes the position; when the offset is negative or the reference point
   is not one of the three, it fails with invalid-argument and leaves the
   position and the reader of the handle as they were. *)
C19_SeekChecked ==
    (OpenFile /\ h.pos >= 0) =>
        \A c \in SeekCases(h.object.size) :
            LET r == Seek(h, c[1], c[2])
                npos == SeekTo(h.pos, h.object.size, c[1], c[2])
            IN IF c[2] \in {SeekStart, SeekCurrent, SeekEnd} /\ npos >= 0
               THEN r.err = "nil" /\ r.n = npos /\ r.h.pos = npos
               ELSE r.err = "ErrInvalid" /\ r.h = h

\* the Reads that can follow on the handle f
ReadsOf(f) ==
    {Read(rev, f, l, oc) : l \in BufSizes(f.object.size), oc \in UNION {ReadOutcomes(f, l) : l \in BufSizes(f.object.size)}}

(* C34: on an open handle of an object, raw or compressed, a Seek to an
   offset beyond the declared size succeeds and returns that offset, and the
   Read that follows returns end-of-data with no bytes and makes no
   decompression stream. *)
C34_SeekBeyond ==
    /\ (OpenFile /\ h.pos >= 0) =>
          \A k \in {h.object.size + 1, h.object.size + GzipChunk} :
              LET s == Seek(h, k, SeekStart)
              IN /\ s.err = "nil" /\ s.n = k
                 /\ \A r \in ReadsOf(s.h) :
                       /\ r.err = "EOF" /\ r.n = 0 /\ r.bytes = <<>>
                       /\ r.h.kind # "raw" => r.h.reader = <<>>
    /\ (OpenFile /\ trace.seeks /\ trace.from > h.object.size /\ ret.op = "Read") =>
          /\ ret.err = "EOF" /\ ret.n = 0 /\ ret.bytes = <<>>
          /\ h.kind # "raw" => h.reader = <<>>
    /\ (OpenFile /\ trace.seeks /\ ret.op = "Seek" /\ ret.err = "nil") => ret.n = trace.from

\* a handle of the compressed object, read at first, was moved beyond the
\* declared size and then read
C34_Witness ==
    /\ OpenFile /\ StoredCompressed(h.object)
    /\ trace.seeks /\ trace.from = h.object.size + 1 /\ trace.dropped
    /\ ret.op = "Read" /\ ret.err = "EOF" /\ h.reader = <<>>

\* C35: Stat on an open file handle reports the declared size of the object,
\* which is what FileSystem.Stat reports for the name while the name holds
\* that object, wherever the handle stands and whatever has been read from it
C35_HandleStatSize ==
    OpenFile =>
        /\ fileStatSize(h) = h.object.size
        /\ (h.object.name \in DOMAIN objs /\ objs[h.object.name] = h.object) =>
              /\ stat(objs, dirs, h.object.name).err = "nil"
              /\ fileStatSize(h) = objectSize(objs[h.object.name])

\* the last Read could not make the gzip reader of the handle, or could not
\* skip to the position of the handle: the position lies beyond what the
\* stream holds, or the stored bytes are no container
ReadFailed ==
    /\ ret.op = "Read" /\ ret.err \notin {"nil", "ErrClosed"}
    /\ h.kind \in {"file", "zfile"} /\ StoredCompressed(h.object)
    /\ \/ ~IsContainer(h.object.data)
       \/ trace.from > BLen(Gunzip(h.object.data))

(* C21: a Read that fails while it makes the decompression stream, or while
   it skips forward to the position a Seek has set, returns the error with a
   count of zero and no bytes: the count is never the number of bytes
   skipped, and never more than the buffer takes. *)
C21_FailedReadCountsNothing ==
    /\ ret.op = "Read" => ret.n = BLen(ret.bytes)
    /\ ReadFailed => (ret.n = 0 /\ ret.bytes = <<>>)

(* C20: every decompression stream a handle creates is released by the time
   the handle has been closed: after Close, whatever Reads and Seeks came
   before it, no gzip reader the handle made has been let go of without its
   Close being called, and the handle holds no reader. *)
C20_StreamsReleased ==
    (h.kind \in {"file", "zfile"} /\ StoredCompressed(h.object) /\ trace.closed) =>
        (~trace.dropped /\ h.reader = <<>>)

\* the bytes the handle f has delivered since its last Seek, or since Open,
\* are the content of its object from that offset on, as far as they go
Sound(f, t) ==
    (f.kind \in {"file", "raw", "zfile"} /\ ~t.closed /\ t.from <= f.object.size) =>
        /\ BLen(t.out) <= BLen(Drop(t.content, t.from))
        /\ t.out = Take(Drop(t.content, t.from), BLen(t.out))

(* C18: handles are independent: with two handles open on the same object or
   on different objects, a Read, a Seek or a Close on one of them leaves the
   position, the reader and the open or closed state of the other as they
   were, and each handle goes on delivering the content of its own object from
   its own position. *)
C18_HandlesIndependent ==
    [][/\ (h' # h \/ trace' # trace) => (g' = g /\ gtrace' = gtrace)
       /\ Sound(h', trace')
       /\ Sound(g', gtrace')]_vars

\* two handles on the same compressed object: the first was read and closed,
\* the second, moved by a Seek, has delivered the content from its offset on
C18_Witness ==
    /\ h.kind # "none" /\ g.kind # "none"
    /\ h.object = g.object /\ StoredCompressed(h.object)
    /\ trace.closed /\ trace.out # <<>>
    /\ ~gtrace.closed /\ gtrace.seeks /\ gtrace.from = 1
    /\ gtrace.out = Drop(Whole("page"), 1)

\* ------------------------------------------------------------------ serving: claims

\* the URL path of a stored name: the name, rooted
UrlOf(name) == IF HasSlashPrefix(name) THEN name ELSE <<Slash>> \o name

\* the ETag values of an object
StrongTagOf(o) == StrongTag(FormatUint36(o.hash))
WeakTagOf(o) == WeakTag(FormatUint36(o.hash))

\* name is a stored object that is served under its own URL path: not an
\* index document, not the not-found document
ServedByName(name) ==
    /\ name \in DOMAIN objs
    /\ SplitFile(name) \notin {<<"index.html">>, <<"404.html">>}

\* the last request was a GET for the URL path p through ServeHTTP
Asked(p) == asked.op = "ServeHTTP" /\ asked.method = "GET" /\ asked.path = p

(* C5: a GET for an object stored compressed gets, when the request does not
   accept gzip, status 200 with the original bytes, a strong ETag and no
   Content-Encoding; and when it accepts gzip, status 200 with the stored
   container as it is, a weak ETag and Content-Encoding: gzip. *)
C5_Negotiation ==
    \A name \in DOMAIN objs :
        (ServedByName(name) /\ StoredCompressed(objs[name]) /\ Asked(UrlOf(name))) =>
            /\ resp.status = StatusOK
            /\ ~asked.gzip =>
                  /\ resp.body = given[name]
                  /\ resp.etag = StrongTagOf(objs[name])
                  /\ resp.encoding = ""
            /\ asked.gzip =>
                  /\ resp.body = objs[name].data
                  /\ resp.etag = WeakTagOf(objs[name])
                  /\ resp.encoding = "gzip"

\* the index document of the directory with the URL path p, if the store has one
IndexOf(p) ==
    {name \in DOMAIN objs : UrlOf(name) = TrimSlashSuffix(p) \o IndexPage}

\* the representation of the object at name that the request asked for
Representation(name) ==
    IF StoredCompressed(objs[name]) /\ asked.gzip THEN objs[name].data ELSE given[name]

(* C10: when a directory holds an index document, a GET for the directory
   with and without the slash at its end is answered with status 200 and the
   content of the index document; the same for the root directory. *)
C10_IndexServed ==
    \A p \in {<<Slash>>, <<Slash, "a">>} : \A name \in IndexOf(p) :
        (Asked(p) \/ Asked(TrimSlashSuffix(p) \o <<Slash>>)) =>
            (resp.status = StatusOK /\ resp.body = Representation(name))

\* the registered not-found documents: the objects with the URL path /404.html
NotFoundDocs == {name \in DOMAIN objs : UrlOf(name) = <<Slash, "404.html">>}

\* the last request went through ServeHTTP for the URL path p, by any method
AskedAny(p) == asked.op = "ServeHTTP" /\ asked.path = p

(* C11: when a not-found document is registered, a request for a path that
   resolves to no object and to no index document is answered with status
   404 and the bytes of that document as body; a HEAD request is answered
   with status 404 and an empty body. *)
C11_NotFoundDocument ==
    \A name \in NotFoundDocs :
        AskedAny(<<Slash, "zz">>) =>
            /\ resp.status = StatusNotFound
            /\ resp.body = IF asked.method = "HEAD" THEN <<>> ELSE Representation(name)

\* the last request, through ServeHTTP or ServeFile, was for the path of the
\* not-found document itself
AskedNotFoundDoc ==
    \/ asked.op = "ServeHTTP" /\ Clean(asked.path) = <<Slash, "404.html">>
    \/ asked.op = "ServeFile" /\ UrlOf(asked.path) = <<Slash, "404.html">>

(* C12: a request through ServeHTTP or ServeFile whose canonical path is the
   path of the registered not-found document is answered with status 404,
   never with a successful response. *)
C12_ReservedNeverServed ==
    \A name \in NotFoundDocs : AskedNotFoundDoc => resp.status = StatusNotFound

\* the ETag header setHeaders emits for the object o, for a request that
\* accepts gzip (the stored container goes out) or does not (the original bytes)
TagEmitted(o, gzip) == setHeaders(NoResp, Request("GET", <<Slash>>, gzip), o).w.etag

(* C13: for an object stored compressed, the ETag emitted with the stored
   container (weak) and the ETag emitted with the decompressed bytes (strong)
   are different strings, the weak one being the strong one behind the marker
   W/, both holding the base-36 text of the object's checksum; and a response
   carries the weak form exactly when it carries Content-Encoding: gzip. *)
C13_TagsDiffer ==
    /\ \A name \in DOMAIN objs :
           (StoredCompressed(objs[name]) /\ objs[name].hash # 0) =>
               /\ TagEmitted(objs[name], TRUE) # TagEmitted(objs[name], FALSE)
               /\ TagEmitted(objs[name], TRUE) = <<"W/">> \o TagEmitted(objs[name], FALSE)
               /\ TagEmitted(objs[name], FALSE) =
                      <<"\"">> \o FormatUint36(objs[name].hash) \o <<"\"">>
    /\ (asked.op # "none" /\ resp.etag # <<>>) =>
           (resp.encoding = "gzip" <=> Head(resp.etag) = "W/")

\* a compressed object has been served as it is stored, with its weak tag
C13_Witness ==
    \E name \in DOMAIN objs :
        /\ StoredCompressed(objs[name]) /\ objs[name].hash # 0
        /\ asked.op # "none" /\ asked.gzip
        /\ resp.status = StatusOK /\ resp.encoding = "gzip"
        /\ resp.etag = TagEmitted(objs[name], TRUE)
        /\ resp.body = objs[name].data

\* the last call was one of ServeHTTP or ServeFile
AskedServe == asked.op \in {"ServeHTTP", "ServeFile"}

\* the response carries a representation of a stored object: its original
\* bytes or its stored container, nothing for HEAD
CarriesObject ==
    /\ resp.status = StatusOK /\ resp.text = ""
    /\ \E name \in DOMAIN objs :
           \/ resp.body = (IF asked.method = "HEAD" THEN <<>> ELSE given[name])
           \/ resp.body = (IF asked.method = "HEAD" THEN <<>> ELSE objs[name].data)

(* C22: for every request path, rooted or not, with or without dot segments,
   and every store, ServeFile and ServeHTTP produce a representation of a
   stored object or a not-found response. *)
C22_ObjectOrNotFound == AskedServe => (CarriesObject \/ resp.status = StatusNotFound)

\* the response is a listing of a directory, as http.FileServer writes it
Lists == resp.status = StatusOK /\ resp.text = "<pre>"

(* C24: ServeFile and ServeHTTP never answer with a directory listing; a
   request for a directory gets the index document of the directory, a redirect
   to it, or the not-found response. *)
C24_NeverLists == AskedServe => ~Lists

\* an operation that reads has acted: it returned, or it answered a request
ReadSide == ret' # ret \/ h' # h \/ asked' # asked \/ resp' # resp

(* C26: Open, ReadFile, the operations of a handle (Read, Seek, Close, ReadDir
   with the Stat of every entry) and the serve operations (ServeHTTP,
   ServeFile, ServeContent, the not-found path included) leave the object map,
   every field of every object and every directory listing as they were. *)
C26_ReadsLeaveStore == [][ReadSide => (objs' = objs /\ dirs' = dirs)]_vars

\* the not-found document was served without a tag although the stored object
\* has a checksum, and the store holds a second object
C26_Witness ==
    /\ AskedServe /\ resp.status = StatusNotFound /\ asked.method = "GET"
    /\ NotFoundPage(rev) \in DOMAIN objs
    /\ resp.body = objs[NotFoundPage(rev)].data
    /\ objs[NotFoundPage(rev)].hash # 0 /\ resp.etag = NoResp.etag
    /\ Cardinality(DOMAIN objs) = 2


\* the response to the last request had it come with the other Accept-Encoding
Twin(strip) ==
    LET rq == Request(asked.method, asked.path, ~asked.gzip)
    IN IF asked.op = "ServeHTTP" THEN ServeHTTP(rev, objs, dirs, NoResp, rq, strip)
       ELSE IF asked.op = "ServeFile"
       THEN ServeFile(rev, objs, dirs, NoResp, rq, asked.path, strip)
       ELSE ServeContent(rev, objs, NoResp, rq, asked.path)

\* the last request names the object at name: by its path, as the index
\* document of its directory, or as the not-found document of a miss
Names(name) ==
    LET c == Clean(UrlOf(asked.path))
    IN IF asked.op = "ServeContent" THEN asked.path = name
       ELSE \/ UrlOf(name) \in {c, TrimSlashSuffix(c) \o IndexPage}
            \/ resp.status = StatusNotFound /\ name \in NotFoundDocs

\* the last request was a GET that names the object at name, which is stored
\* raw, and its response carries the bytes of that object
RawServed(name) ==
    /\ asked.op # "none" /\ asked.method = "GET"
    /\ ~StoredCompressed(objs[name])
    /\ Names(name)
    /\ resp.text = "" /\ resp.body = objs[name].data

(* C30: a response that carries an object stored raw is the response the
   same request gets with the other Accept-Encoding: the same bytes and the
   same tag, which is not weak; and it has no Content-Encoding header and no
   Vary header. *)
C30_RawIgnoresEncoding ==
    \A name \in DOMAIN objs :
        RawServed(name) =>
            /\ \A strip \in BOOLEAN : Twin(strip) = resp
            /\ resp.etag \in {<<>>, StrongTagOf(objs[name])}
            /\ resp.encoding = ""
            /\ resp.vary = ""

\* the last request was a GET that names the object at name, which is stored
\* compressed, and its response carries that object, as it is stored or
\* decompressed
CompressedServed(name) ==
    /\ asked.op # "none" /\ asked.method = "GET"
    /\ StoredCompressed(objs[name])
    /\ Names(name)
    /\ resp.text = "" /\ resp.body \in {objs[name].data, given[name]}

(* C31: every response that carries an object stored compressed has the
   header Vary: Accept-Encoding, when the stored container goes out as it is
   and when the decompressed content goes out to a request that does not
   accept gzip. *)
C31_VaryOnCompressed ==
    \A name \in DOMAIN objs : CompressedServed(name) => resp.vary = "Accept-Encoding"

\* a compressed object went out decompressed, to a request without gzip
C31_Witness ==
    \E name \in DOMAIN objs :
        /\ CompressedServed(name) /\ ~asked.gzip /\ resp.status = StatusOK
        /\ resp.body = given[name] /\ resp.encoding = ""
        /\ resp.vary = "Accept-Encoding"

\* the last request was a GET that names the object at name and was answered
\* with status 200 and that object, as it is stored or decompressed
Carried(name) ==
    /\ asked.op # "none" /\ asked.method = "GET" /\ Names(name)
    /\ resp.status = StatusOK /\ resp.text = ""
    /\ resp.body \in {objs[name].data, given[name]}

(* C32: setHeaders emits a tag exactly when the checksum of the object is not
   zero, for a raw and for a compressed object; a response that carries an
   object has a tag exactly when the checksum of the object is not zero; and
   a response that carries the not-found document has no tag, whatever the
   checksum of the stored document is. *)
C32_TagIffChecksum ==
    /\ \A name \in DOMAIN objs, gzip \in BOOLEAN :
          /\ TagEmitted(objs[name], gzip) # <<>> <=> objs[name].hash # 0
          /\ TagEmitted([objs[name] EXCEPT !.hash = 0], gzip) = <<>>
    /\ \A name \in DOMAIN objs :
          Carried(name) => (resp.etag # <<>> <=> objs[name].hash # 0)
    /\ \A name \in NotFoundDocs :
          (/\ AskedServe /\ asked.method = "GET" /\ resp.status = StatusNotFound
           /\ resp.text = "" /\ resp.body \in {objs[name].data, given[name]})
             => resp.etag = <<>>

\* the rooted name of the package documentation
RootedName == <<Slash, "a", Slash, "b", Slash, "c.txt">>

(* C16: Create accepts a slash-separated rooted name: Create of /a/b/c.txt
   with the 5 bytes "hello" succeeds, afterwards the directories /, /a and
   /a/b exist, and a GET for /a/b/c.txt is answered with status 200, the body
   "hello" and no Content-Encoding. *)
C16_RootedCreate ==
    (last.op = "Create" /\ last.name = RootedName /\ last.id = "hello") =>
        /\ last.err = "nil"
        /\ {<<Slash>>, <<Slash, "a">>, <<Slash, "a", Slash, "b">>} \subseteq DOMAIN dirs
        /\ \A gzip \in BOOLEAN, strip \in BOOLEAN :
               LET w == ServeHTTP(rev, objs, dirs, NoResp, Request("GET", RootedName, gzip), strip)
               IN w.status = StatusOK /\ w.body = Whole("hello") /\ w.encoding = ""

\* ------------------------------------------------------------------ directories: claims

\* path.Join(dir, name) of the walk: the name alone below "."
Below(dir, name) ==
    IF dir = <<".">> THEN name
    ELSE IF HasSlashSuffix(dir) THEN dir \o name
    ELSE dir \o <<Slash>> \o name

\* the entries ReadDir(-1) returns on a fresh handle of dir; none when dir
\* does not open as a directory
Listing(dir) ==
    LET o == Open(rev, objs, dirs, dir)
    IN IF o.err = "nil" /\ o.h.kind = "dir" THEN ReadDir(objs, dirs, o.h, -1).bytes ELSE <<>>

\* the files a walk from dir finds by following the ReadDir listings, as
\* fs.WalkDir and fstest.TestFS do; fuel: no more levels than directories
RECURSIVE WalkFiles(_, _)
WalkFiles(dir, fuel) ==
    IF fuel = 0 THEN {}
    ELSE UNION {IF Listing(dir)[i].isDir
                THEN WalkFiles(Below(dir, Listing(dir)[i].name), fuel - 1)
                ELSE {Below(dir, Listing(dir)[i].name)} : i \in 1..Len(Listing(dir))}

(* C15: on a store made by Create(), "." opens as a directory; its listing is
   empty when nothing was inserted; and after any sequence of successful
   Create calls every file created is found by the walk that starts at "."
   and follows the ReadDir listings. *)
C15_RootWalk ==
    /\ Open(rev, objs, dirs, <<".">>).err = "nil"
    /\ Open(rev, objs, dirs, <<".">>).h.kind = "dir"
    /\ objs = <<>> => Listing(<<".">>) = <<>>
    /\ \A name \in DOMAIN objs : name \in WalkFiles(<<".">>, Cardinality(DOMAIN dirs) + 1)

\* the entries of the first n children of the list the handle was opened on
Entries(n) == [i \in 1..n |-> stat(objs, dirs, h.list[i])]

(* C28: the ReadDir calls on one directory handle deliver the children of the
   list the handle was opened on in list order, each once, a call with n > 0
   at most n of them and end-of-data with no entries only when none remain; a
   call with n <= 0 delivers all that remain with no error, even when none
   remain; after Close ReadDir fails with closed-handle and delivers nothing;
   and every child of every listing resolves through stat, so that ReadDir
   never fails with not-found. *)
C28_ReadDirPages ==
    /\ \A d \in DOMAIN dirs : \A i \in 1..Len(dirs[d]) : stat(objs, dirs, dirs[d][i]).err = "nil"
    /\ h.kind = "dir" =>
          /\ Len(trace.out) <= Len(h.list)
          /\ trace.out = Entries(Len(trace.out))
          /\ ~trace.closed => h.pos = Len(trace.out)
          /\ ret.op = "ReadDir" =>
                /\ ret.n = Len(ret.bytes)
                /\ IF trace.closed THEN ret.err = "ErrClosed" /\ ret.n = 0
                   ELSE IF trace.from > 0
                   THEN /\ ret.n <= trace.from
                        /\ ret.err = IF ret.n = 0 THEN "EOF" ELSE "nil"
                        /\ ret.n = 0 => Len(trace.out) = Len(h.list)
                   ELSE ret.err = "nil" /\ Len(trace.out) = Len(h.list)

\* a directory of two children was read one entry at a time up to the
\* end-of-data
C28_Witness ==
    /\ h.kind = "dir" /\ ~trace.closed /\ Len(h.list) = 2
    /\ ret.op = "ReadDir" /\ ret.err = "EOF" /\ trace.from = 1
    /\ trace.out = Entries(2) /\ trace.out[1] # trace.out[2]

\* ------------------------------------------------------------------ the generator

\* entries that filepath.Walk visits in one run
MaxWalk == 3

\* the characters of one line of dump, four for each byte
LineChars == 80

\* an unbuffered channel is [full, val, closed]: a sent value stands in the
\* channel (full) until a receive takes it, and the sender goes on only then.
\* close(c)
ChanLeftOpen(c) == c

ChanClose(c) == [c EXCEPT !.closed = TRUE]

\* the goroutine of walk.  At "walk" it is in filepath.Walk between two calls
\* of the function: the next entry is a directory (return nil), comes with an
\* error or is a file that ReadFile fails on (return err: Walk stops), or is a
\* file, whose asset is sent with a new channel for its lines; or there is no
\* further entry.  At "asset" it stands in `assets <- Asset{...}`, at "close"
\* dump has returned, at "end" Walk has returned.  n is the length of
\* compress(data, modtime): none, less than a line, one whole line, one line
\* and one byte; filepath.Rel of a path that Walk made under root does not fail.
walkAssets ==
    /\ \/ /\ gen.wpc = "walk" /\ gen.visited < MaxWalk
          /\ \E e \in {"dir", "err", "unreadable", "file"} :
             \E n \in {0, 1, LineChars \div 4, (LineChars \div 4) + 1} :
                IF e = "dir"
                THEN gen' = [gen EXCEPT !.visited = @ + 1]
                ELSE IF e \in {"err", "unreadable"}
                THEN gen' = [gen EXCEPT !.visited = @ + 1, !.failed = TRUE, !.wpc = "end"]
                ELSE gen' = [gen EXCEPT !.visited = @ + 1, !.len = n, !.i = 0,
                                        !.lines = Append(@, [full |-> FALSE, val |-> <<>>,
                                                             closed |-> FALSE]),
                                        !.assets = [@ EXCEPT !.full = TRUE,
                                                             !.val = gen.visited + 1],
                                        !.sent = Append(@, [asset |-> gen.visited + 1,
                                                            len |-> n, lines |-> <<>>]),
                                        !.wpc = "asset"]
       \/ /\ gen.wpc = "walk"
          /\ gen' = [gen EXCEPT !.wpc = "end"]
       \/ /\ gen.wpc = "asset" /\ ~gen.assets.full
          /\ gen' = [gen EXCEPT !.wpc = "dump"]
       \/ /\ gen.wpc = "close"
          /\ gen' = [gen EXCEPT !.lines[Len(gen.lines)] = ChanClose(@), !.wpc = "walk"]
       \/ /\ gen.wpc = "end"
          /\ gen' = [gen EXCEPT !.assets = ChanClose(@), !.wpc = "done"]
    /\ UNCHANGED <<rev, objs, dirs, calls, last, given, h, trace, g, gtrace, ret, asked, resp>>

\* dump, in the goroutine of walk: a line is the escapes of the next bytes of
\* the data, [asset, lo, hi], up to LineChars characters; at "line" the
\* goroutine stands in `lines <- line.String()`
dump ==
    /\ \/ /\ gen.wpc = "dump" /\ gen.i < gen.len
          /\ LET hi == Min(gen.i + (LineChars \div 4), gen.len)
                 line == [asset |-> gen.assets.val, lo |-> gen.i, hi |-> hi]
                 k == Len(gen.lines)
             IN gen' = [gen EXCEPT !.i = hi,
                                   !.lines[k] = [@ EXCEPT !.full = TRUE, !.val = line],
                                   !.sent[k].lines = Append(@, line),
                                   !.wpc = "line"]
       \/ /\ gen.wpc = "dump" /\ gen.i >= gen.len
          /\ gen' = [gen EXCEPT !.wpc = "close"]
       \/ /\ gen.wpc = "line" /\ ~gen.lines[Len(gen.lines)].full
          /\ gen' = [gen EXCEPT !.wpc = "dump"]
    /\ UNCHANGED <<rev, objs, dirs, calls, last, given, h, trace, g, gtrace, ret, asked, resp>>

\* tmpl.Execute in main, the other side: it ranges over .Assets and, for each
\* asset it has taken, over the .Lines of this asset to their end before it
\* takes the next asset
Execute ==
    /\ \/ /\ gen.cpc = "assets" /\ gen.assets.full
          /\ gen' = [gen EXCEPT !.assets.full = FALSE,
                                !.got = Append(@, [asset |-> gen.assets.val, lines |-> <<>>]),
                                !.cpc = "lines"]
       \/ /\ gen.cpc = "assets" /\ ~gen.assets.full /\ gen.assets.closed
          /\ gen' = [gen EXCEPT !.cpc = "done"]
       \/ /\ gen.cpc = "lines" /\ gen.lines[Len(gen.got)].full
          /\ gen' = [gen EXCEPT !.lines[Len(gen.got)].full = FALSE,
                                !.got[Len(gen.got)].lines =
                                    Append(@, gen.lines[Len(gen.got)].val)]
       \/ /\ gen.cpc = "lines" /\ ~gen.lines[Len(gen.got)].full
          /\ gen.lines[Len(gen.got)].closed
          /\ gen' = [gen EXCEPT !.cpc = "assets"]
    /\ UNCHANGED <<rev, objs, dirs, calls, last, given, h, trace, g, gtrace, ret, asked, resp>>

NextGen ==
    \/ walkAssets
    \/ dump
    \/ Execute

\* both goroutines are scheduled for as long as they can take a step
SpecGen == Init /\ [][NextGen]_vars /\ WF_vars(walkAssets) /\ WF_vars(dump) /\ WF_vars(Execute)

\* the lines of n bytes of the asset a, from the byte lo on
RECURSIVE Chunks(_, _, _)
Chunks(a, lo, n) ==
    IF lo >= n THEN <<>>
    ELSE <<[asset |-> a, lo |-> lo, hi |-> Min(lo + (LineChars \div 4), n)]>>
         \o Chunks(a, Min(lo + (LineChars \div 4), n), n)

\* both sides have returned, and nothing stands in a channel
Finished ==
    /\ gen.wpc = "done" /\ gen.cpc = "done"
    /\ ~gen.assets.full /\ gen.assets.closed
    /\ \A k \in 1..Len(gen.lines) : ~gen.lines[k].full /\ gen.lines[k].closed

\* C36: the walker hands each asset and then its lines over unbuffered
\* channels, closes the channel of the lines after the last line of the asset
\* and the channel of the assets after the last asset; with a template that
\* reads the lines of an asset to their end before it takes the next asset,
\* every run ends with both sides returned and nothing left in a channel, also
\* after a file could not be read, and every line of every asset that was
\* handed over is received once and in order
C36_GeneratorEnds ==
    /\ <>[]Finished
    /\ gen.failed ~> Finished
    /\ [](/\ Len(gen.got) <= Len(gen.sent)
          /\ \A k \in 1..Len(gen.got) :
                /\ gen.got[k].asset = gen.sent[k].asset
                /\ Len(gen.got[k].lines) <= Len(gen.sent[k].lines)
                /\ gen.got[k].lines = SubSeq(gen.sent[k].lines, 1, Len(gen.got[k].lines))
                /\ k < Len(gen.got) =>
                      gen.got[k].lines = Chunks(gen.sent[k].asset, 0, gen.sent[k].len))
    /\ [](\A k \in 1..Len(gen.lines) :
             gen.lines[k].closed =>
                 /\ ~gen.lines[k].full
                 /\ gen.sent[k].lines = Chunks(gen.sent[k].asset, 0, gen.sent[k].len))
    /\ [](gen.assets.closed => (gen.wpc = "done" /\ \A k \in 1..Len(gen.lines) : gen.lines[k].closed))
    /\ [](Finished =>
             /\ Len(gen.got) = Len(gen.sent)
             /\ \A k \in 1..Len(gen.got) :
                   gen.got[k].lines = Chunks(gen.sent[k].asset, 0, gen.sent[k].len))

\* a walk of an asset of two lines and an asset of no line, stopped by a file
\* that could not be read, has ended
C36_Witness ==
    /\ Finished /\ gen.failed
    /\ Len(gen.got) = 2
    /\ Len(gen.got[1].lines) = 2 /\ gen.got[1].lines[2].hi = (LineChars \div 4) + 1
    /\ gen.got[2].lines = <<>>

====
